---- MODULE Spec2Model ----
(***************************************************************************)
(* Scheduling and delivery-reconciliation engine of the channel repost     *)
(* bot: the due check, the task materializer, the dispatch loop and the    *)
(* per-record reconciler of internal/scheduler, over the send_records,     *)
(* channels and channel_groups tables of internal/database.                *)
(*                                                                         *)
(* Time is counted in clock units of 30 seconds (Minute = 2 units).        *)
(***************************************************************************)
EXTENDS Integers, Sequences, FiniteSets, Bags, TLC

VARIABLES
    now,        \* wall clock (time.Now), in clock units
    cfg,        \* config.SchedulerConfig: MaxWorkers, RetryAttempts, RetryInterval
    groups,     \* channel_groups table: group id -> row
    channels,   \* channels table: <<group id, channel id>> -> row
    records,    \* send_records table: sequence of rows, id = index
    mat,        \* createRepostTasks: group snapshots still to be examined
    tick,       \* processPendingRecords: the fetched list and the loop position
    workers,    \* the processRecord goroutines that have not returned (a bag)
    slots,      \* len(s.workers): slots of the worker pool that are taken
    wg,         \* s.wg: the counter of the wait group
    ctx,        \* s.ctx: "live" until s.cancel() is called, then "done"
    loops,      \* which of the two periodic goroutines have not returned
    stop,       \* Stop: "idle" before the call, "waiting" in s.wg.Wait(), "returned"
    manual,     \* the operator's manual operation in progress, if any
    manuals,    \* manual operations started so far
    lockMap,    \* b.operationLocks[group]: the mutex in the map, NoLock if absent
    held,       \* the mutexes that are locked
    ops,        \* the Bot's handlers of manual operations, by goroutine
    cleanups,   \* goroutines sleeping before cleanupOperationLock
    nextMsg,    \* next remote message id the platform will hand out
    dispatches, \* work items dispatched so far
    live,       \* the platform: <<channel, message id>> of the messages not deleted
    dGroup,     \* due-check harness: the group row given to the due predicate
    dRows,      \* due-check harness: the group's rows, newest created first
    dPad,       \* due-check harness: number of newer in-flight rows before dRows
    dNow,       \* due-check harness: the time of the check
    dErr,       \* due-check harness: the history lookup of the check fails
    dDue,       \* due-check harness: result of the check ("none" before it ran)
    dNew,       \* due-check harness: the rows the materializer created after the check
    dSwitches,  \* due-check harness: mode switches the operator made before the check
    dRead       \* due-check harness: the row a mode switch has read and not yet written

vars == <<now, cfg, groups, channels, records, mat, tick, workers, slots, wg, nextMsg,
          dispatches, live, ctx, loops, stop, manual, manuals, lockMap, held, ops, cleanups, dGroup, dRows, dPad, dNow, dErr,
          dDue, dNew, dSwitches, dRead>>

stopVars == <<ctx, loops, stop>>
lockVars == <<lockMap, held, ops, cleanups>>
botVars == <<manual, manuals, lockVars>>
engineVars == <<now, cfg, groups, channels, records, mat, tick, workers, slots, wg, nextMsg,
                dispatches, live, stopVars, botVars>>
dueVars == <<dGroup, dRows, dPad, dNow, dErr, dDue, dNew, dSwitches, dRead>>

----------------------------------------------------------------------------
(* Bounds of the model *)

MaxTime == 1        \* the clock of the engine runs over 0..MaxTime
MaxRecords == 3     \* rows the send_records table may hold
MaxDispatch == 2    \* work items the dispatch loop hands to workers
MaxHist == 2        \* rows of a drawn send history (before padding)
MaxManual == 1      \* manual operations the operator starts
MaxDispatchLive == 9    \* work items handed out when working off a table
MaxSwitch == 2      \* mode switches of the operator before a due check
MaxOps == 3         \* handlers of manual operations that run

----------------------------------------------------------------------------
(* Values *)

NoTime == 0 - 1     \* a NULL sent_at
NoMsg == 0          \* the empty message id ""

ScheduleModeFrequency == "frequency"
ScheduleModeTimepoints == "timepoints"
SendTypeRepost == "repost"
SendTypePush == "push"
SendStatusPending == "pending"
SendStatusSent == "sent"
SendStatusFailed == "failed"
SendStatusRetry == "retry"

InFlight == {SendStatusPending, SendStatusRetry}

ErrNone == "NULL"
ErrInactive == "Channel group is inactive"
ErrNotFound == "Channel not found"
ErrSend == "send error"
ErrStorage == "storage error"

----------------------------------------------------------------------------
(* Calendar arithmetic of time.Time, in clock units *)

Minute == 2
Hour == 60 * Minute
Day == 24 * Hour

HourOf(t) == (t \div Hour) % 24
MinuteOf(t) == (t \div Minute) % 60
DateOf(t) == t \div Day

abs(x) == IF x < 0 THEN 0 - x ELSE x

Min(a, b) == IF a < b THEN a ELSE b

----------------------------------------------------------------------------
(* Due-Check Engine.  rows is the group's send_records in the order of      *)
(* "ORDER BY created_at DESC"; the LIMIT of each query is applied here.     *)

HistoryLimitLast == 1
HistoryLimitToday == 50

GetSendRecordsByGroupID(rows, limit) == SubSeq(rows, 1, Min(limit, Len(rows)))

(* the frequency check that treats the group as not due when the lookup fails *)
shouldCreateFrequencyTaskFailClosed(group, rows, t, err) ==
    LET recs == GetSendRecordsByGroupID(rows, HistoryLimitLast) IN
    IF err THEN FALSE
    ELSE IF Len(recs) = 0 THEN TRUE
    ELSE LET lastRecord == recs[1] IN
         IF lastRecord.message_type # SendTypeRepost \/ lastRecord.status # SendStatusSent
         THEN TRUE
         ELSE IF lastRecord.sent_at = NoTime THEN TRUE
         ELSE t > lastRecord.sent_at + group.frequency * Minute

(* the frequency check with a non-strict comparison of the next send time *)
shouldCreateFrequencyTaskAtOrAfter(group, rows, t, err) ==
    LET recs == GetSendRecordsByGroupID(rows, HistoryLimitLast) IN
    IF err THEN TRUE
    ELSE IF Len(recs) = 0 THEN TRUE
    ELSE LET lastRecord == recs[1] IN
         IF lastRecord.message_type # SendTypeRepost \/ lastRecord.status # SendStatusSent
         THEN TRUE
         ELSE IF lastRecord.sent_at = NoTime THEN TRUE
         ELSE t >= lastRecord.sent_at + group.frequency * Minute

(* err: GetSendRecordsByGroupID returns an error *)
shouldCreateFrequencyTask(group, rows, t, err) ==
    LET recs == GetSendRecordsByGroupID(rows, HistoryLimitLast) IN
    IF err THEN TRUE
    ELSE IF Len(recs) = 0 THEN TRUE
    ELSE LET lastRecord == recs[1] IN
         IF lastRecord.message_type # SendTypeRepost \/ lastRecord.status # SendStatusSent
         THEN TRUE
         ELSE IF lastRecord.sent_at = NoTime THEN TRUE
         ELSE t > lastRecord.sent_at + group.frequency * Minute

hasAlreadySentToday(rows, today, timepoint, err) ==
    LET recs == GetSendRecordsByGroupID(rows, HistoryLimitToday) IN
    ~err /\ \E i \in 1..Len(recs) :
        /\ recs[i].message_type = SendTypeRepost
        /\ recs[i].status = SendStatusSent
        /\ recs[i].sent_at # NoTime
        /\ DateOf(recs[i].sent_at) = today
        /\ HourOf(recs[i].sent_at) = timepoint.hour
        /\ abs(MinuteOf(recs[i].sent_at) - timepoint.minute) <= 1

shouldCreateTimepointTask(group, rows, t, err) ==
    IF Len(group.timepoints) = 0 THEN FALSE
    ELSE \E k \in 1..Len(group.timepoints) :
            LET timepoint == group.timepoints[k] IN
            /\ timepoint.hour = HourOf(t)
            /\ timepoint.minute = MinuteOf(t)
            /\ ~hasAlreadySentToday(rows, DateOf(t), timepoint, err)

(* the dispatch on the mode that sends every value but "frequency" to the   *)
(* timepoint check                                                          *)
shouldCreateRepostTaskDefaultTimepoints(group, rows, t, err) ==
    CASE group.mode = ScheduleModeFrequency -> shouldCreateFrequencyTask(group, rows, t, err)
      [] OTHER -> shouldCreateTimepointTask(group, rows, t, err)

shouldCreateRepostTask(group, rows, t, err) ==
    CASE group.mode = ScheduleModeFrequency -> shouldCreateFrequencyTask(group, rows, t, err)
      [] group.mode = ScheduleModeTimepoints -> shouldCreateTimepointTask(group, rows, t, err)
      [] OTHER -> shouldCreateFrequencyTask(group, rows, t, err)

----------------------------------------------------------------------------
(* Configuration and tables *)

SecondsPerUnit == 30

GroupIDs == {1}
ChannelIDs == {"A", "B"}
ChannelOrder == <<"A", "B">>       \* creation order of the channel rows
WorkerChoices == {1, 2}            \* values of scheduler.max_workers explored

RetryAttemptsChoices == {2}        \* scheduler.retry_attempts
RetryIntervalChoices == {30}       \* scheduler.retry_interval, in seconds

TimePoint(h, m) == [hour |-> h, minute |-> m]

NewGroup(m, pin) ==
    [active |-> TRUE, mode |-> m, frequency |-> 1,
     timepoints |-> <<TimePoint(0, 0)>>, auto_pin |-> pin]

NewChannel == [last_message_id |-> NoMsg, is_active |-> TRUE]

NewSendRecord(id, g, c, type, t) ==
    [id |-> id, group_id |-> g, channel_id |-> c, message_id |-> NoMsg,
     message_type |-> type, status |-> SendStatusPending, error_message |-> ErrNone,
     retry_count |-> 0, scheduled_at |-> t, sent_at |-> NoTime, created_at |-> t]

(* The sequences that list the elements of S in non-decreasing order of key *)
SortedBy(S, key(_)) ==
    {f \in [1..Cardinality(S) -> S] :
        /\ \A i, j \in 1..Cardinality(S) : i # j => f[i] # f[j]
        /\ \A i, j \in 1..Cardinality(S) : i < j => key(f[i]) <= key(f[j])}

RowsOf(recs, ids) == [i \in 1..Len(ids) |-> recs[ids[i]]]

(* SELECT ... FROM send_records WHERE group_id = ? ORDER BY created_at DESC *)
GroupRowsNewestFirst(recs, g) ==
    LET ids == {i \in 1..Len(recs) : recs[i].group_id = g}
        key(i) == 0 - recs[i].created_at
    IN  {RowsOf(recs, f) : f \in SortedBy(ids, key)}

(* the due records in any order *)
GetPendingSendRecordsUnordered(recs, t) ==
    LET ids == {i \in 1..Len(recs) : recs[i].status \in InFlight /\ recs[i].scheduled_at <= t}
        key(i) == 0
    IN  {RowsOf(recs, f) : f \in SortedBy(ids, key)}

(* WHERE status IN ('pending','retry') AND scheduled_at <= now ORDER BY scheduled_at ASC *)
GetPendingSendRecords(recs, t) ==
    LET ids == {i \in 1..Len(recs) : recs[i].status \in InFlight /\ recs[i].scheduled_at <= t}
        key(i) == recs[i].scheduled_at
    IN  {RowsOf(recs, f) : f \in SortedBy(ids, key)}

(* WHERE group_id = ? AND channel_id = ? AND status IN ('pending','retry') *)
GetPendingSendRecordsByGroupAndChannel(recs, g, c) ==
    {i \in 1..Len(recs) : recs[i].group_id = g /\ recs[i].channel_id = c
                          /\ recs[i].status \in InFlight}

(* WHERE group_id = ? AND is_active = 1 ORDER BY created_at ASC *)
GetChannelsByGroupID(chans, g) ==
    SelectSeq(ChannelOrder, LAMBDA c : <<g, c>> \in DOMAIN chans /\ chans[<<g, c>>].is_active)

(* UPDATE send_records SET message_id, status, error_message, retry_count,  *)
(* sent_at WHERE id = ?: scheduled_at is not among the columns written      *)
UpdateSendRecord(recs, rec) ==
    IF rec.id \in 1..Len(recs)
    THEN [recs EXCEPT ![rec.id] =
            [@ EXCEPT !.message_id = rec.message_id, !.status = rec.status,
                      !.error_message = rec.error_message,
                      !.retry_count = rec.retry_count, !.sent_at = rec.sent_at]]
    ELSE recs

(* UPDATE channels SET last_message_id = ? WHERE channel_id = ? *)
UpdateChannelLastMessageID(chans, c, m) ==
    [k \in DOMAIN chans |-> IF k[2] = c THEN [chans[k] EXCEPT !.last_message_id = m]
                            ELSE chans[k]]

----------------------------------------------------------------------------
(* Task Materializer *)

createRepostTask(recs, chans, g, t) ==
    LET cs == GetChannelsByGroupID(chans, g)
        todo == SelectSeq(cs, LAMBDA c :
                    GetPendingSendRecordsByGroupAndChannel(recs, g, c) = {})
    IN  recs \o [i \in 1..Len(todo) |->
                    NewSendRecord(Len(recs) + i, g, todo[i], SendTypeRepost, t)]

----------------------------------------------------------------------------
(* Outcome Reconciler: the writes of one work item *)

(* a retry classifier that neither counts the attempt nor gives up *)
handleSendErrorNotCounting(rec, err, c, t) ==
    [rec EXCEPT !.error_message = err, !.status = SendStatusRetry]

handleSendError(rec, err, c, t) ==
    LET r1 == [rec EXCEPT !.retry_count = @ + 1, !.error_message = err] IN
    IF r1.retry_count < c.RetryAttempts
    THEN [r1 EXCEPT !.status = SendStatusRetry,
                    !.scheduled_at = t + (c.RetryInterval \div SecondsPerUnit)]
    ELSE [r1 EXCEPT !.status = SendStatusFailed]

(* a terminal failure that also counts as a retry *)
MarkFailedCounting(rec, err) ==
    [rec EXCEPT !.status = SendStatusFailed, !.error_message = err, !.retry_count = @ + 1]

MarkFailed(rec, err) == [rec EXCEPT !.status = SendStatusFailed, !.error_message = err]

MarkSent(rec, m, t) ==
    [rec EXCEPT !.message_id = m, !.status = SendStatusSent, !.sent_at = t,
                !.error_message = ErrNone]

----------------------------------------------------------------------------
(* State after scheduler.New and Start over a table without work items *)

(* Start has run: both periodic goroutines are counted in the wait group *)
Started ==
    /\ wg = 2
    /\ ctx = "live"
    /\ loops = {"schedule", "process"}
    /\ stop = "idle"

NoManual == [op |-> "none", group |-> 0, todo |-> <<>>]

NoLock == 0

OpIDs == 1..MaxOps

(* a mutex is known by a number; no more than MaxOps are referenced at once *)
LockIDs == 1..MaxOps

(* a handler goroutine that has not received its update *)
NoOp == [pc |-> "idle", kind |-> "none", lock |-> NoLock]

NoManualYet ==
    /\ manual = NoManual
    /\ manuals = 0
    /\ lockMap = NoLock
    /\ held = {}
    /\ ops = [o \in OpIDs |-> NoOp]
    /\ cleanups = 0

(* no mode switch is between its read and its write *)
NoRead == <<>>

NoTick == [active |-> FALSE, list |-> <<>>, pos |-> 1, started |-> {}, allFree |-> FALSE]

DueIdle ==
    /\ dGroup = NewGroup(ScheduleModeFrequency, FALSE)
    /\ dRows = <<>>
    /\ dPad = 0
    /\ dNow = 0
    /\ dErr = FALSE
    /\ dDue = "none"
    /\ dNew = <<>>
    /\ dSwitches = 0
    /\ dRead = NoRead

Init ==
    /\ now = 0
    /\ cfg \in [MaxWorkers : WorkerChoices, RetryAttempts : RetryAttemptsChoices,
                RetryInterval : RetryIntervalChoices]
    /\ groups = [g \in GroupIDs |-> NewGroup(ScheduleModeFrequency, TRUE)]
    /\ channels = [k \in GroupIDs \X {ChannelOrder[1]} |-> NewChannel]
    /\ records = <<>>
    /\ mat = <<>>
    /\ tick = NoTick
    /\ workers = EmptyBag
    /\ slots = 0
    /\ Started
    /\ NoManualYet
    /\ nextMsg = 1
    /\ live = {}
    /\ dispatches = 0
    /\ DueIdle

----------------------------------------------------------------------------
(* The clock and the operator's edits *)

Advance ==
    /\ now < MaxTime
    /\ now' = now + 1
    /\ UNCHANGED <<cfg, groups, channels, records, mat, tick, workers, slots, wg, nextMsg, dispatches>>
    /\ UNCHANGED <<stopVars, botVars, dueVars, live>>

(* Bot.handleToggleStatusAction *)
SetGroupStatus(g, b) ==
    /\ groups[g].active # b
    /\ groups' = [groups EXCEPT ![g].active = b]
    /\ UNCHANGED <<now, cfg, channels, records, mat, tick, workers, slots, wg, nextMsg, dispatches>>
    /\ UNCHANGED <<stopVars, botVars, dueVars, live>>

(* Bot: adding a channel to a group (repo.CreateChannel) *)
AddChannel(k) ==
    /\ k \notin DOMAIN channels
    /\ channels' = [j \in (DOMAIN channels) \cup {k} |->
                        IF j = k THEN NewChannel ELSE channels[j]]
    /\ UNCHANGED <<now, cfg, groups, records, mat, tick, workers, slots, wg, nextMsg, dispatches>>
    /\ UNCHANGED <<stopVars, botVars, dueVars, live>>

----------------------------------------------------------------------------
(* Due-Check Engine and Task Materializer: one tick of scheduleRepostTasks *)

GroupSnapshot(g) == [id |-> g] @@ groups[g]

(* createRepostTasks: GetChannelGroups *)
CreateRepostTasks ==
    /\ "schedule" \in loops
    /\ mat = <<>>
    /\ \E order \in SortedBy(GroupIDs, LAMBDA g : 0 - g) :
          mat' = [i \in 1..Len(order) |-> GroupSnapshot(order[i])]
    /\ UNCHANGED <<now, cfg, groups, channels, records, tick, workers, slots, wg, nextMsg, dispatches>>
    /\ UNCHANGED <<stopVars, botVars, dueVars, live>>

(* createRepostTasks without the test of IsActive *)
MaterializeGroupIgnoringActive ==
    /\ mat # <<>>
    /\ LET group == Head(mat) IN
       \E rows \in GroupRowsNewestFirst(records, group.id), histErr \in BOOLEAN :
          LET recs == IF shouldCreateRepostTask(group, rows, now, histErr)
                      THEN createRepostTask(records, channels, group.id, now)
                      ELSE records
          IN  /\ Len(recs) <= MaxRecords
              /\ records' = recs
    /\ mat' = Tail(mat)
    /\ UNCHANGED <<now, cfg, groups, channels, tick, workers, slots, wg, nextMsg, dispatches>>
    /\ UNCHANGED <<stopVars, botVars, dueVars, live>>

(* createRepostTasks: one iteration of the loop over the groups *)
MaterializeGroup ==
    /\ mat # <<>>
    /\ LET group == Head(mat) IN
       \E rows \in GroupRowsNewestFirst(records, group.id), histErr \in BOOLEAN :
          LET recs == IF group.active /\ shouldCreateRepostTask(group, rows, now, histErr)
                      THEN createRepostTask(records, channels, group.id, now)
                      ELSE records
          IN  /\ Len(recs) <= MaxRecords
              /\ records' = recs
    /\ mat' = Tail(mat)
    /\ UNCHANGED <<now, cfg, groups, channels, tick, workers, slots, wg, nextMsg, dispatches>>
    /\ UNCHANGED <<stopVars, botVars, dueVars, live>>

----------------------------------------------------------------------------
(* Dispatch Loop: one tick of processPendingTasks *)

Busy == slots

(* processPendingRecords: GetPendingSendRecords *)
DispatchFetch ==
    /\ "process" \in loops
    /\ ~tick.active
    /\ \E list \in GetPendingSendRecords(records, now) :
          /\ Len(list) > 0
          /\ tick' = [active |-> TRUE, list |-> list, pos |-> 1, started |-> {},
                      allFree |-> (Busy = 0)]
    /\ UNCHANGED <<now, cfg, groups, channels, records, mat, workers, slots, wg, nextMsg, dispatches>>
    /\ UNCHANGED <<stopVars, botVars, dueVars, live>>

StartWorker(rec) ==
    [pc |-> "load", rec |-> rec, last |-> NoMsg, auto_pin |-> FALSE,
     calls |-> <<>>, failed |-> {}, msg |-> NoMsg]

(* processPendingRecords: one iteration, the non-blocking acquire of a slot; *)
(* cap bounds the work items handed out                                     *)
DispatchRecordUpTo(cap) ==
    /\ tick.active
    /\ tick.pos <= Len(tick.list)
    /\ LET record == tick.list[tick.pos] IN
       IF Busy < cfg.MaxWorkers
       THEN /\ dispatches < cap
            /\ slots' = slots + 1
            /\ wg' = wg + 1
            /\ workers' = workers (+) SetToBag({StartWorker(record)})
            /\ dispatches' = dispatches + 1
            /\ tick' = [tick EXCEPT !.pos = @ + 1, !.started = @ \cup {record.id}]
       ELSE /\ ctx = "live"
            /\ UNCHANGED <<workers, slots, wg, dispatches>>
            /\ tick' = [tick EXCEPT !.pos = @ + 1]
    /\ UNCHANGED <<now, cfg, groups, channels, records, mat, nextMsg>>
    /\ UNCHANGED <<stopVars, botVars, dueVars, live>>

DispatchRecord == DispatchRecordUpTo(MaxDispatch)

(* processPendingRecords returns *)
DispatchReturn ==
    /\ tick.active
    /\ tick.pos > Len(tick.list)
    /\ tick' = NoTick
    /\ UNCHANGED <<now, cfg, groups, channels, records, mat, workers, slots, wg, nextMsg, dispatches>>
    /\ UNCHANGED <<stopVars, botVars, dueVars, live>>

----------------------------------------------------------------------------
(* Outcome Reconciler: processRecord, one goroutine per dispatched record.  *)
(* Each operator gives the outcome of one stretch of the goroutine: the row *)
(* it writes (write, empty when it writes none) and its next position       *)
(* ("done" when processRecord returns and the deferred release runs).       *)

Call(op, c, m) == [op |-> op, channel |-> c, msg |-> m]

Outcome(w, pc, write) == [worker |-> [w EXCEPT !.pc = pc], write |-> write]

HasChannel(chans, g, c) ==
    \E i \in 1..Len(GetChannelsByGroupID(chans, g)) : GetChannelsByGroupID(chans, g)[i] = c

(* a reconciler that marks the record failed at once when a load fails *)
processRepostRecordFailingOnLoadError(w, grps, chans, c, t, loadErr) ==
    LET record == w.rec IN
    IF loadErr
    THEN Outcome(w, "done", <<MarkFailed(record, ErrStorage)>>)
    ELSE IF ~grps[record.group_id].active
    THEN Outcome(w, "done", <<MarkFailed(record, ErrInactive)>>)
    ELSE IF ~HasChannel(chans, record.group_id, record.channel_id)
    THEN Outcome(w, "done", <<MarkFailed(record, ErrNotFound)>>)
    ELSE LET targetChannel == chans[<<record.group_id, record.channel_id>>] IN
         Outcome([w EXCEPT !.last = targetChannel.last_message_id,
                           !.auto_pin = grps[record.group_id].auto_pin],
                 IF targetChannel.last_message_id # NoMsg THEN "delete" ELSE "send",
                 <<>>)

(* processRepostRecord up to the delete: group, template and channel loads  *)
(* (loadErr: one of them returns an error)                                  *)
processRepostRecord(w, grps, chans, c, t, loadErr) ==
    LET record == w.rec IN
    IF loadErr
    THEN Outcome(w, "done", <<handleSendError(record, ErrStorage, c, t)>>)
    ELSE IF ~grps[record.group_id].active
    THEN Outcome(w, "done", <<MarkFailed(record, ErrInactive)>>)
    ELSE IF ~HasChannel(chans, record.group_id, record.channel_id)
    THEN Outcome(w, "done", <<MarkFailed(record, ErrNotFound)>>)
    ELSE LET targetChannel == chans[<<record.group_id, record.channel_id>>] IN
         Outcome([w EXCEPT !.last = targetChannel.last_message_id,
                           !.auto_pin = grps[record.group_id].auto_pin],
                 IF targetChannel.last_message_id # NoMsg THEN "delete" ELSE "send",
                 <<>>)

(* processPushRecord up to the send: group and template loads *)
processPushRecord(w, grps, c, t, loadErr) ==
    LET record == w.rec IN
    IF loadErr
    THEN Outcome(w, "done", <<handleSendError(record, ErrStorage, c, t)>>)
    ELSE IF ~grps[record.group_id].active
    THEN Outcome(w, "done", <<MarkFailed(record, ErrInactive)>>)
    ELSE Outcome(w, "send", <<>>)

(* processRecord: the switch on the kind of the record *)
processRecord(w, grps, chans, c, t, loadErr) ==
    CASE w.rec.message_type = SendTypeRepost -> processRepostRecord(w, grps, chans, c, t, loadErr)
      [] w.rec.message_type = SendTypePush -> processPushRecord(w, grps, c, t, loadErr)
      [] OTHER -> Outcome(w, "done", <<>>)

(* the reconciler going on to the send without the delete *)
deletePreviousSkipped(w, ok) == Outcome(w, "send", <<>>)

(* a reconciler that gives the record up when the delete fails *)
deletePreviousAborting(w, ok) ==
    IF ok
    THEN Outcome([w EXCEPT !.calls = Append(@, Call("delete", w.rec.channel_id, w.last))],
                 "send", <<>>)
    ELSE Outcome(w, "done", <<MarkFailed(w.rec, ErrSend)>>)

(* DeleteMessage(targetChannel.ChannelID, targetChannel.LastMessageID); an  *)
(* error (~ok) is logged, failed keeps the calls whose error was logged     *)
deletePrevious(w, ok) ==
    Outcome([w EXCEPT !.calls = Append(@, Call("delete", w.rec.channel_id, w.last)),
                      !.failed = IF ok THEN @ ELSE @ \cup {"delete"}],
            "send", <<>>)

(* SendMessageWithTemplate / SendMessage returning id m or an error, then   *)
(* PinMessage when the group has auto pin (repost only), whose error        *)
(* (~pinOk) is logged                                                       *)
sendNew(w, m, ok, pinOk, c, t) ==
    IF ok
    THEN Outcome([w EXCEPT !.msg = m,
                           !.failed = IF w.auto_pin /\ ~pinOk THEN @ \cup {"pin"} ELSE @,
                           !.calls = @ \o <<Call("send", w.rec.channel_id, m)>>
                                       \o (IF w.auto_pin
                                           THEN <<Call("pin", w.rec.channel_id, m)>>
                                           ELSE <<>>)],
                 "persist", <<>>)
    ELSE Outcome(w, "done", <<handleSendError(w.rec, ErrSend, c, t)>>)

(* a reconciler that stores the new id whatever the kind of the record *)
persistChannelAnyKind(chans, w) ==
    UpdateChannelLastMessageID(chans, w.rec.channel_id, w.msg)

(* the channel rows after a successful send of w *)
persistChannel(chans, w) ==
    IF w.rec.message_type = SendTypeRepost
    THEN UpdateChannelLastMessageID(chans, w.rec.channel_id, w.msg)
    ELSE chans

(* the record update after a successful send; an error of UpdateSendRecord  *)
(* is returned to processRecord, which calls handleSendError                *)
persistRecord(w, ok, c, t) ==
    IF ok
    THEN Outcome(w, "done", <<MarkSent(w.rec, w.msg, t)>>)
    ELSE Outcome(w, "done", <<handleSendError(w.rec, ErrStorage, c, t)>>)

(* the effect of an outcome without the deferred release of the slot *)
ApplyKeepingSlot(w, out) ==
    /\ records' = IF Len(out.write) = 0 THEN records
                  ELSE UpdateSendRecord(records, out.write[1])
    /\ workers' = IF out.worker.pc = "done"
                  THEN workers (-) SetToBag({w})
                  ELSE (workers (-) SetToBag({w})) (+) SetToBag({out.worker})
    /\ slots' = slots
    /\ wg' = IF out.worker.pc = "done" THEN wg - 1 ELSE wg

(* the effect of an outcome on the table and on the worker pool *)
Apply(w, out) ==
    /\ records' = IF Len(out.write) = 0 THEN records
                  ELSE UpdateSendRecord(records, out.write[1])
    /\ workers' = IF out.worker.pc = "done"
                  THEN workers (-) SetToBag({w})
                  ELSE (workers (-) SetToBag({w})) (+) SetToBag({out.worker})
    /\ slots' = IF out.worker.pc = "done" THEN slots - 1 ELSE slots
    /\ wg' = IF out.worker.pc = "done" THEN wg - 1 ELSE wg

(* errs: whether the storage may fail (BOOLEAN) or not ({FALSE}) *)
LoadRecordWith(w, errs) ==
    /\ w.pc = "load"
    /\ \E loadErr \in errs :
          Apply(w, processRecord(w, groups, channels, cfg, now, loadErr))
    /\ UNCHANGED <<now, cfg, groups, channels, mat, tick, nextMsg, dispatches>>
    /\ UNCHANGED <<stopVars, botVars, dueVars, live>>

LoadRecord(w) == LoadRecordWith(w, BOOLEAN)

(* oks: whether DeleteMessage may fail (BOOLEAN) or not ({TRUE}) *)
DeletePreviousWith(w, oks) ==
    /\ w.pc = "delete"
    /\ \E ok \in oks :
          /\ Apply(w, deletePrevious(w, ok))
          /\ live' = IF ok /\ Len(deletePrevious(w, ok).worker.calls) > Len(w.calls)
                     THEN live \ {<<w.rec.channel_id, w.last>>} ELSE live
    /\ UNCHANGED <<now, cfg, groups, channels, mat, tick, nextMsg, dispatches>>
    /\ UNCHANGED <<stopVars, botVars, dueVars>>

DeletePrevious(w) == DeletePreviousWith(w, BOOLEAN)

SendNew(w) ==
    /\ w.pc = "send"
    /\ \E ok, pinOk \in BOOLEAN :
          /\ Apply(w, sendNew(w, nextMsg, ok, pinOk, cfg, now))
          /\ nextMsg' = IF ok THEN nextMsg + 1 ELSE nextMsg
          /\ live' = IF ok THEN live \cup {<<w.rec.channel_id, nextMsg>>} ELSE live
    /\ UNCHANGED <<now, cfg, groups, channels, mat, tick, dispatches>>
    /\ UNCHANGED <<stopVars, botVars, dueVars>>

(* oks: whether UpdateSendRecord may fail (BOOLEAN) or not ({TRUE}) *)
PersistOutcomeWith(w, oks) ==
    /\ w.pc = "persist"
    /\ channels' = persistChannel(channels, w)
    /\ \E ok \in oks : Apply(w, persistRecord(w, ok, cfg, now))
    /\ UNCHANGED <<now, cfg, groups, mat, tick, nextMsg, dispatches>>
    /\ UNCHANGED <<stopVars, botVars, dueVars, live>>

PersistOutcome(w) == PersistOutcomeWith(w, BOOLEAN)

----------------------------------------------------------------------------
(* The engine *)

Next ==
    \/ Advance
    \/ \E g \in GroupIDs, b \in BOOLEAN : SetGroupStatus(g, b)
    \/ \E k \in GroupIDs \X ChannelIDs : AddChannel(k)
    \/ CreateRepostTasks
    \/ MaterializeGroup
    \/ DispatchFetch
    \/ DispatchRecord
    \/ DispatchReturn
    \/ \E w \in BagToSet(workers) : LoadRecord(w)
    \/ \E w \in BagToSet(workers) : DeletePrevious(w)
    \/ \E w \in BagToSet(workers) : SendNew(w)
    \/ \E w \in BagToSet(workers) : PersistOutcome(w)

Spec == Init /\ [][Next]_vars

----------------------------------------------------------------------------
(* Shutdown: Stop, and the two periodic goroutines observing s.ctx *)

(* Stop: s.cancel(), then s.wg.Wait() *)
Stop ==
    /\ stop = "idle"
    /\ ctx' = "done"
    /\ stop' = "waiting"
    /\ UNCHANGED <<now, cfg, groups, channels, records, mat, tick, workers, slots, wg,
                   nextMsg, dispatches, loops>>
    /\ UNCHANGED <<botVars, dueVars, live>>

(* Stop with a wait group that ignores the goroutines still counted *)
StopReturnEarly ==
    /\ stop = "waiting"
    /\ stop' = "returned"
    /\ UNCHANGED <<now, cfg, groups, channels, records, mat, tick, workers, slots, wg,
                   nextMsg, dispatches, ctx, loops>>
    /\ UNCHANGED <<botVars, dueVars, live>>

(* Stop: s.wg.Wait() returns *)
StopReturn ==
    /\ stop = "waiting"
    /\ wg = 0
    /\ stop' = "returned"
    /\ UNCHANGED <<now, cfg, groups, channels, records, mat, tick, workers, slots, wg,
                   nextMsg, dispatches, ctx, loops>>
    /\ UNCHANGED <<botVars, dueVars, live>>

(* scheduleRepostTasks: case <-s.ctx.Done(), with the deferred s.wg.Done() *)
scheduleRepostTasksReturn ==
    /\ "schedule" \in loops
    /\ mat = <<>>
    /\ ctx = "done"
    /\ loops' = loops \ {"schedule"}
    /\ wg' = wg - 1
    /\ UNCHANGED <<now, cfg, groups, channels, records, mat, tick, workers, slots,
                   nextMsg, dispatches, ctx, stop>>
    /\ UNCHANGED <<botVars, dueVars, live>>

(* processPendingTasks returning without s.wg.Done() *)
processPendingTasksReturnUncounted ==
    /\ "process" \in loops
    /\ ~tick.active
    /\ ctx = "done"
    /\ loops' = loops \ {"process"}
    /\ UNCHANGED <<now, cfg, groups, channels, records, mat, tick, workers, slots, wg,
                   nextMsg, dispatches, ctx, stop>>
    /\ UNCHANGED <<botVars, dueVars, live>>

(* processPendingTasks: case <-s.ctx.Done(), with the deferred s.wg.Done() *)
processPendingTasksReturn ==
    /\ "process" \in loops
    /\ ~tick.active
    /\ ctx = "done"
    /\ loops' = loops \ {"process"}
    /\ wg' = wg - 1
    /\ UNCHANGED <<now, cfg, groups, channels, records, mat, tick, workers, slots,
                   nextMsg, dispatches, ctx, stop>>
    /\ UNCHANGED <<botVars, dueVars, live>>

(* processPendingRecords: case <-s.ctx.Done() of the select in the loop *)
DispatchCancelled ==
    /\ tick.active
    /\ tick.pos <= Len(tick.list)
    /\ ctx = "done"
    /\ tick' = NoTick
    /\ UNCHANGED <<now, cfg, groups, channels, records, mat, workers, slots, wg,
                   nextMsg, dispatches>>
    /\ UNCHANGED <<stopVars, botVars, dueVars, live>>

WorkerStep ==
    \E w \in BagToSet(workers) :
        LoadRecord(w) \/ DeletePrevious(w) \/ SendNew(w) \/ PersistOutcome(w)

NextStop ==
    \/ Advance
    \/ \E g \in GroupIDs, b \in BOOLEAN : SetGroupStatus(g, b)
    \/ CreateRepostTasks
    \/ MaterializeGroup
    \/ DispatchFetch
    \/ DispatchRecord
    \/ DispatchReturn
    \/ DispatchCancelled
    \/ \E w \in BagToSet(workers) : LoadRecord(w)
    \/ \E w \in BagToSet(workers) : DeletePrevious(w)
    \/ \E w \in BagToSet(workers) : SendNew(w)
    \/ \E w \in BagToSet(workers) : PersistOutcome(w)
    \/ Stop
    \/ scheduleRepostTasksReturn
    \/ processPendingTasksReturn
    \/ StopReturn

(* Every delivery call returns and every goroutine that can run does run;  *)
(* a select with s.ctx.Done() ready takes that case sooner or later.       *)
FairStop ==
    /\ WF_vars(WorkerStep)
    /\ WF_vars(MaterializeGroup)
    /\ WF_vars(DispatchRecord \/ DispatchCancelled \/ DispatchReturn)
    /\ SF_vars(scheduleRepostTasksReturn)
    /\ SF_vars(processPendingTasksReturn)
    /\ WF_vars(StopReturn)

SpecStop == Init /\ [][NextStop]_vars /\ FairStop

----------------------------------------------------------------------------
(* The dispatch loop and the reconciler working off a table of pending      *)
(* records, with a storage that does not fail and a platform that deletes   *)
(* the messages it is asked to delete                                       *)

(* the table after the materializer ran once for the group's channels cs *)
MaterializedFor(cs) ==
    createRepostTask(<<>>, [k \in GroupIDs \X cs |-> NewChannel], 1, 0)

InitLive ==
    /\ now = 0
    /\ cfg \in [MaxWorkers : WorkerChoices, RetryAttempts : RetryAttemptsChoices,
                RetryInterval : RetryIntervalChoices]
    /\ groups = [g \in GroupIDs |-> NewGroup(ScheduleModeFrequency, FALSE)]
    /\ \E cs \in {{"A"}, {"A", "B"}} :
          /\ Cardinality(cs) > 1 => cfg.MaxWorkers = 1
          /\ channels = [k \in GroupIDs \X cs |-> NewChannel]
          /\ records = MaterializedFor(cs)
    /\ mat = <<>>
    /\ tick = NoTick
    /\ workers = EmptyBag
    /\ slots = 0
    /\ Started
    /\ NoManualYet
    /\ nextMsg = 1
    /\ live = {}
    /\ dispatches = 0
    /\ DueIdle

DispatchRecordLive == DispatchRecordUpTo(MaxDispatchLive)

WorkerStepLive ==
    \E w \in BagToSet(workers) :
        \/ LoadRecordWith(w, {FALSE})
        \/ DeletePreviousWith(w, {TRUE})
        \/ SendNew(w)
        \/ PersistOutcomeWith(w, {TRUE})

NextLive ==
    \/ Advance
    \/ DispatchFetch
    \/ DispatchRecordLive
    \/ DispatchReturn
    \/ \E w \in BagToSet(workers) : LoadRecordWith(w, {FALSE})
    \/ \E w \in BagToSet(workers) : DeletePreviousWith(w, {TRUE})
    \/ \E w \in BagToSet(workers) : SendNew(w)
    \/ \E w \in BagToSet(workers) : PersistOutcomeWith(w, {TRUE})

(* The ticker of processPendingTasks keeps firing, the loop over the fetched *)
(* list goes on, every delivery call returns and every goroutine runs.       *)
FairLive ==
    /\ WF_vars(DispatchFetch)
    /\ WF_vars(DispatchRecordLive)
    /\ WF_vars(DispatchReturn)
    /\ WF_vars(WorkerStepLive)

SpecLive == InitLive /\ [][NextLive]_vars /\ FairLive

----------------------------------------------------------------------------
(* The engine over a table that holds a pending record of kind push         *)

InitPush ==
    /\ now = 0
    /\ cfg \in [MaxWorkers : WorkerChoices, RetryAttempts : RetryAttemptsChoices,
                RetryInterval : RetryIntervalChoices]
    /\ groups = [g \in GroupIDs |-> NewGroup(ScheduleModeFrequency, TRUE)]
    /\ channels = [k \in GroupIDs \X {ChannelOrder[1]} |-> NewChannel]
    /\ records = <<NewSendRecord(1, 1, ChannelOrder[1], SendTypePush, 0)>>
    /\ mat = <<>>
    /\ tick = NoTick
    /\ workers = EmptyBag
    /\ slots = 0
    /\ Started
    /\ NoManualYet
    /\ nextMsg = 1
    /\ live = {}
    /\ dispatches = 0
    /\ DueIdle

SpecPush == InitPush /\ [][Next]_vars

----------------------------------------------------------------------------
(* Start over the table a previous run of the process left behind           *)

(* the sweep without its test of the status *)
CleanupAllRepostRecords(recs) ==
    LET kept == SelectSeq(recs, LAMBDA r : r.message_type # SendTypeRepost)
    IN  [i \in 1..Len(kept) |-> [kept[i] EXCEPT !.id = i]]

(* DELETE FROM send_records WHERE status = 'pending' AND message_type =      *)
(* 'repost'. The rows that stay are numbered anew in their order: no        *)
(* goroutine holds an id when Start runs.                                   *)
CleanupDuplicatePendingRecords(recs) ==
    LET kept == SelectSeq(recs, LAMBDA r :
                    ~(r.status = SendStatusPending /\ r.message_type = SendTypeRepost))
    IN  [i \in 1..Len(kept) |-> [kept[i] EXCEPT !.id = i]]

(* rows of an earlier run, for the group's channel: statuses as the         *)
(* reconciler and the message service leave them                            *)
StaleRow(kind) ==
    LET rec == NewSendRecord(0, 1, ChannelOrder[1], SendTypeRepost, 0) IN
    CASE kind = SendStatusPending -> rec
      [] kind = SendStatusRetry ->
            [rec EXCEPT !.status = SendStatusRetry, !.retry_count = 1,
                        !.error_message = ErrSend]
      [] kind = SendStatusFailed -> MarkFailed(rec, ErrSend)
      [] kind = SendStatusSent -> MarkSent(rec, 1, 0)

StaleKinds ==
    {<<>>, <<SendStatusPending>>, <<SendStatusSent, SendStatusPending>>,
     <<SendStatusPending, SendStatusRetry>>,
     <<SendStatusFailed, SendStatusPending, SendStatusPending>>}

StaleTable(kinds) == [i \in 1..Len(kinds) |-> [StaleRow(kinds[i]) EXCEPT !.id = i]]

(* scheduler.New has returned and Start has not been called *)
NotStarted ==
    /\ wg = 0
    /\ ctx = "live"
    /\ loops = {}
    /\ stop = "idle"

InitStart ==
    /\ now = 0
    /\ cfg \in [MaxWorkers : WorkerChoices, RetryAttempts : RetryAttemptsChoices,
                RetryInterval : RetryIntervalChoices]
    /\ groups = [g \in GroupIDs |-> NewGroup(ScheduleModeFrequency, TRUE)]
    /\ \E kinds \in StaleKinds :
          /\ records = StaleTable(kinds)
          /\ LET sent == \E i \in 1..Len(kinds) : kinds[i] = SendStatusSent IN
             /\ channels = [k \in GroupIDs \X {ChannelOrder[1]} |->
                              [NewChannel EXCEPT !.last_message_id =
                                                    IF sent THEN 1 ELSE NoMsg]]
             /\ nextMsg = IF sent THEN 2 ELSE 1
             /\ live = IF sent THEN {<<ChannelOrder[1], 1>>} ELSE {}
    /\ mat = <<>>
    /\ tick = NoTick
    /\ workers = EmptyBag
    /\ slots = 0
    /\ NotStarted
    /\ NoManualYet
    /\ dispatches = 0
    /\ DueIdle

(* Scheduler.Start: the sweep, whose error is only logged, then s.wg.Add(2) *)
(* and the two go statements                                                *)
Start ==
    /\ NotStarted
    /\ \E ok \in BOOLEAN :
          records' = IF ok THEN CleanupDuplicatePendingRecords(records) ELSE records
    /\ wg' = 2
    /\ loops' = {"schedule", "process"}
    /\ UNCHANGED <<now, cfg, groups, channels, mat, tick, workers, slots, nextMsg,
                   dispatches, ctx, stop>>
    /\ UNCHANGED <<botVars, dueVars, live>>

NextStart ==
    \/ Start
    \/ Advance
    \/ CreateRepostTasks
    \/ MaterializeGroup
    \/ DispatchFetch
    \/ DispatchRecord
    \/ DispatchReturn
    \/ \E w \in BagToSet(workers) : LoadRecord(w)
    \/ \E w \in BagToSet(workers) : DeletePrevious(w)
    \/ \E w \in BagToSet(workers) : SendNew(w)
    \/ \E w \in BagToSet(workers) : PersistOutcome(w)

SpecStart == InitStart /\ [][NextStart]_vars

----------------------------------------------------------------------------
(* The dispatch loop and the reconciler when two groups have a channel row  *)
(* for the same platform channel: UNIQUE(channel_id, group_id)              *)

SharingGroups == {1, 2}

(* pending repost records as the materializer creates them, for the groups  *)
(* gs and their channel ChannelOrder[1]                                     *)
MaterializedForGroups(gs) ==
    [i \in 1..Len(gs) |-> NewSendRecord(i, gs[i], ChannelOrder[1], SendTypeRepost, 0)]

InitShared ==
    /\ now = 0
    /\ cfg \in [MaxWorkers : WorkerChoices, RetryAttempts : RetryAttemptsChoices,
                RetryInterval : RetryIntervalChoices]
    /\ groups = [g \in SharingGroups |-> NewGroup(ScheduleModeFrequency, TRUE)]
    /\ channels = [k \in SharingGroups \X {ChannelOrder[1]} |-> NewChannel]
    /\ records \in {MaterializedForGroups(<<1>>), MaterializedForGroups(<<1, 2>>)}
    /\ mat = <<>>
    /\ tick = NoTick
    /\ workers = EmptyBag
    /\ slots = 0
    /\ Started
    /\ NoManualYet
    /\ nextMsg = 1
    /\ live = {}
    /\ dispatches = 0
    /\ DueIdle

NextShared ==
    \/ Advance
    \/ DispatchFetch
    \/ DispatchRecord
    \/ DispatchReturn
    \/ \E w \in BagToSet(workers) : LoadRecord(w)
    \/ \E w \in BagToSet(workers) : DeletePrevious(w)
    \/ \E w \in BagToSet(workers) : SendNew(w)
    \/ \E w \in BagToSet(workers) : PersistOutcome(w)

SpecShared == InitShared /\ [][NextShared]_vars

----------------------------------------------------------------------------
(* The operator's manual operations (Bot) and the message service           *)

(* "repost" also stands for executeCustomRepost and "push" for              *)
(* executeCustomPush, whose loops store the id of the sent message alike    *)
ManualOps == {"repost", "push", "delete", "service"}

(* Bot.handleConfirmDeleteChannelAction: repo.DeleteChannel *)
DeleteChannel(k) ==
    /\ k \in DOMAIN channels
    /\ channels' = [j \in (DOMAIN channels) \ {k} |-> channels[j]]
    /\ UNCHANGED <<now, cfg, groups, records, mat, tick, workers, slots, wg, nextMsg, dispatches>>
    /\ UNCHANGED <<stopVars, botVars, dueVars, live>>

(* INSERT INTO send_records (group_id, channel_id, message_id, message_type, *)
(* status, scheduled_at): the other columns take their defaults              *)
CreateSendRecord(recs, rec) ==
    Append(recs, [NewSendRecord(Len(recs) + 1, rec.group_id, rec.channel_id,
                                rec.message_type, rec.scheduled_at)
                    EXCEPT !.message_id = rec.message_id, !.status = rec.status])

(* MessageService.recordSendSuccess *)
recordSendSuccess(recs, g, c, m, type, t) ==
    CreateSendRecord(recs, MarkSent(NewSendRecord(0, g, c, type, t), m, t))

(* MessageService.recordSendFailure *)
recordSendFailure(recs, g, c, type, t) ==
    CreateSendRecord(recs, MarkFailed(NewSendRecord(0, g, c, type, t), ErrSend))

(* the channels the handler loops over: the rows it read, with the          *)
(* last_message_id each had at that moment                                  *)
ManualTodo(g) ==
    LET cs == GetChannelsByGroupID(channels, g) IN
    [i \in 1..Len(cs) |-> [channel |-> cs[i], last |-> channels[<<g, cs[i]>>].last_message_id]]

(* the handler starts: handleRepostAction, handlePushMessage,               *)
(* handleDeleteAction of the Bot, SendRepost of the MessageService          *)
ManualBegin(op, g) ==
    /\ manual = NoManual
    /\ manuals < MaxManual
    /\ op = "service" => groups[g].active
    /\ Len(ManualTodo(g)) > 0
    /\ manual' = [op |-> op, group |-> g, todo |-> ManualTodo(g)]
    /\ manuals' = manuals + 1
    /\ UNCHANGED <<now, cfg, groups, channels, records, mat, tick, workers, slots, wg,
                   nextMsg, dispatches>>
    /\ UNCHANGED <<stopVars, lockVars, dueVars, live>>

(* the loop body storing the id although the send or delete has failed *)
manualChannelWritingUnsent(op, g, ch, chans, recs, m, ok, t) ==
    [channels |-> UpdateChannelLastMessageID(chans, ch.channel,
                                             IF op = "delete" THEN NoMsg ELSE m),
     records |-> recs]

(* the tables after the handler's loop body for one channel; ok: the call   *)
(* to the platform (the send, for delete the DeleteMessage) succeeds        *)
manualChannel(op, g, ch, chans, recs, m, ok, t) ==
    CASE op = "repost" ->
            [channels |-> IF ok THEN UpdateChannelLastMessageID(chans, ch.channel, m) ELSE chans,
             records |-> recs]
      [] op = "push" ->
            [channels |-> IF ok THEN UpdateChannelLastMessageID(chans, ch.channel, m) ELSE chans,
             records |-> recs]
      [] op = "delete" ->
            [channels |-> IF ok /\ ch.last # NoMsg
                          THEN UpdateChannelLastMessageID(chans, ch.channel, NoMsg) ELSE chans,
             records |-> recs]
      [] OTHER ->
            [channels |-> IF ok THEN UpdateChannelLastMessageID(chans, ch.channel, m) ELSE chans,
             records |-> IF ok THEN recordSendSuccess(recs, g, ch.channel, m, SendTypeRepost, t)
                         ELSE recordSendFailure(recs, g, ch.channel, SendTypeRepost, t)]

(* a repost that removes every message of the channel before it sends *)
manualPlatformClearingChannel(op, ch, msgs, m, ok, delOk) ==
    LET others == {p \in msgs : p[1] # ch.channel} IN
    IF ok /\ op # "delete" THEN others \cup {<<ch.channel, m>>} ELSE others

(* the platform after the loop body for one channel: a repost deletes the   *)
(* message it read as the previous one (delOk: that call succeeds) before   *)
(* it sends, a delete only deletes, a push only sends                       *)
manualPlatform(op, ch, msgs, m, ok, delOk) ==
    LET deletes == \/ op \in {"repost", "service"} /\ delOk
                   \/ op = "delete" /\ ok
        afterDelete == IF deletes /\ ch.last # NoMsg
                       THEN msgs \ {<<ch.channel, ch.last>>} ELSE msgs
    IN  IF ok /\ op # "delete" THEN afterDelete \cup {<<ch.channel, m>>} ELSE afterDelete

(* one iteration of the handler's loop over the channels; the handler       *)
(* returns after the last one                                               *)
ManualChannel ==
    /\ manual # NoManual
    /\ \E ok, delOk \in BOOLEAN :
          LET ch == Head(manual.todo)
              out == manualChannel(manual.op, manual.group, ch,
                                   channels, records, nextMsg, ok, now)
          IN  /\ Len(out.records) <= MaxRecords
              /\ channels' = out.channels
              /\ records' = out.records
              /\ nextMsg' = IF ok /\ manual.op # "delete" THEN nextMsg + 1 ELSE nextMsg
              /\ live' = manualPlatform(manual.op, ch, live, nextMsg, ok, delOk)
    /\ manual' = IF Len(manual.todo) = 1 THEN NoManual
                 ELSE [manual EXCEPT !.todo = Tail(@)]
    /\ UNCHANGED <<now, cfg, groups, mat, tick, workers, slots, wg, dispatches, manuals>>
    /\ UNCHANGED <<stopVars, lockVars, dueVars>>

NextOps ==
    \/ Advance
    \/ \E k \in GroupIDs \X ChannelIDs : DeleteChannel(k)
    \/ \E op \in ManualOps, g \in GroupIDs : ManualBegin(op, g)
    \/ ManualChannel
    \/ CreateRepostTasks
    \/ MaterializeGroup
    \/ DispatchFetch
    \/ DispatchRecord
    \/ DispatchReturn
    \/ \E w \in BagToSet(workers) : LoadRecord(w)
    \/ \E w \in BagToSet(workers) : DeletePrevious(w)
    \/ \E w \in BagToSet(workers) : SendNew(w)
    \/ \E w \in BagToSet(workers) : PersistOutcome(w)

SpecOps == Init /\ [][NextOps]_vars

----------------------------------------------------------------------------
(* The per-group operation lock of the Bot's manual operations, for group 1. *)
(* Every update is handled in a goroutine of its own (go b.handleUpdate).    *)

(* handleRepostAction, handleCustomPushAction, handleCustomRepostAction and  *)
(* handleForwardAction take the operation lock                               *)
LockingOps == {"repost", "customPush", "customRepost", "forward"}

(* handleDeleteAction takes no lock *)
OpKinds == LockingOps \cup {"delete"}

(* the mutexes that the map or a handler still points to *)
Referenced(map, os) ==
    (IF map = NoLock THEN {} ELSE {map})
        \cup {os[o].lock : o \in {p \in OpIDs : os[p].pc = "got" \/
                                                  (os[p].pc = "run" /\ os[p].lock # NoLock)}}

(* getOperationLock: the mutex of the map, or a new one put into the map *)
getOperationLock(map, os) ==
    IF map # NoLock THEN map
    ELSE CHOOSE l \in LockIDs : l \notin Referenced(map, os)

(* a handler's entry up to the return of getOperationLock; the delete       *)
(* handler goes straight to its loop over the channels                      *)
OpBegin(o, kind) ==
    /\ ops[o].pc = "idle"
    /\ \A p \in OpIDs : p < o => ops[p].pc # "idle"
    /\ IF kind \in LockingOps
       THEN LET lock == getOperationLock(lockMap, ops) IN
            /\ lockMap' = lock
            /\ ops' = [ops EXCEPT ![o] = [pc |-> "got", kind |-> kind, lock |-> lock]]
       ELSE /\ ops' = [ops EXCEPT ![o] = [pc |-> "run", kind |-> kind, lock |-> NoLock]]
            /\ UNCHANGED lockMap
    /\ UNCHANGED <<held, cleanups>>
    /\ UNCHANGED <<manual, manuals>>
    /\ UNCHANGED <<now, cfg, groups, channels, records, mat, tick, workers, slots, wg, nextMsg, dispatches>>
    /\ UNCHANGED <<stopVars, dueVars, live>>

(* lock.TryLock(): refused when the mutex is locked *)
OpTryLock(o) ==
    /\ ops[o].pc = "got"
    /\ IF ops[o].lock \in held
       THEN /\ ops' = [ops EXCEPT ![o].pc = "refused"]
            /\ UNCHANGED held
       ELSE /\ ops' = [ops EXCEPT ![o].pc = "run"]
            /\ held' = held \cup {ops[o].lock}
    /\ UNCHANGED <<lockMap, cleanups>>
    /\ UNCHANGED <<manual, manuals>>
    /\ UNCHANGED <<now, cfg, groups, channels, records, mat, tick, workers, slots, wg, nextMsg, dispatches>>
    /\ UNCHANGED <<stopVars, dueVars, live>>

(* the handler returns: the deferred lock.Unlock() and the go statement of  *)
(* the delayed cleanup; the delete handler just returns                     *)
OpReturn(o) ==
    /\ ops[o].pc = "run"
    /\ ops' = [ops EXCEPT ![o].pc = "returned"]
    /\ IF ops[o].kind \in LockingOps
       THEN /\ held' = held \ {ops[o].lock}
            /\ cleanups' = cleanups + 1
       ELSE UNCHANGED <<held, cleanups>>
    /\ UNCHANGED lockMap
    /\ UNCHANGED <<manual, manuals>>
    /\ UNCHANGED <<now, cfg, groups, channels, records, mat, tick, workers, slots, wg, nextMsg, dispatches>>
    /\ UNCHANGED <<stopVars, dueVars, live>>

(* the delayed goroutine: cleanupOperationLock after time.Sleep *)
cleanupOperationLock ==
    /\ cleanups > 0
    /\ cleanups' = cleanups - 1
    /\ lockMap' = NoLock
    /\ UNCHANGED <<held, ops>>
    /\ UNCHANGED <<manual, manuals>>
    /\ UNCHANGED <<now, cfg, groups, channels, records, mat, tick, workers, slots, wg, nextMsg, dispatches>>
    /\ UNCHANGED <<stopVars, dueVars, live>>

NextLock ==
    \/ \E o \in OpIDs, kind \in OpKinds : OpBegin(o, kind)
    \/ \E o \in OpIDs : OpTryLock(o)
    \/ \E o \in OpIDs : OpReturn(o)
    \/ cleanupOperationLock

SpecLock == Init /\ [][NextLock]_vars

----------------------------------------------------------------------------
(* The due predicate on drawn inputs: a group row, a send history in query  *)
(* order (newest first) and the time of the check                           *)

EngineIdle ==
    /\ now = 0
    /\ cfg = [MaxWorkers |-> 1, RetryAttempts |-> 2, RetryInterval |-> 30]
    /\ groups = [g \in GroupIDs |-> NewGroup(ScheduleModeFrequency, FALSE)]
    /\ channels = [k \in GroupIDs \X ChannelIDs |-> NewChannel]
    /\ records = <<>>
    /\ mat = <<>>
    /\ tick = NoTick
    /\ workers = EmptyBag
    /\ slots = 0
    /\ Started
    /\ NoManualYet
    /\ nextMsg = 1
    /\ live = {}
    /\ dispatches = 0

At(d, h, m, halves) == d * Day + h * Hour + m * Minute + halves

DueTimes == {At(d, 8, 0, k) : d \in 1..2, k \in (0 - 1)..4}
SentTimes == {At(1, 8, 0, k) : k \in 0..2}

DueRecord(type, status, sent) ==
    [NewSendRecord(0, 1, "A", type, 0) EXCEPT
        !.status = status, !.sent_at = sent,
        !.message_id = IF status = SendStatusSent THEN 1 ELSE NoMsg,
        !.error_message = IF status \in {SendStatusRetry, SendStatusFailed}
                          THEN ErrSend ELSE ErrNone]

DueRecords ==
    {DueRecord(SendTypeRepost, SendStatusSent, t) : t \in SentTimes}
    \cup {DueRecord(SendTypePush, SendStatusSent, At(1, 8, 0, 1))}
    \cup {DueRecord(SendTypeRepost, st, NoTime) :
            st \in {SendStatusPending, SendStatusRetry, SendStatusFailed}}

DueGroups ==
    {[NewGroup(m, FALSE) EXCEPT !.timepoints = tps] :
        m \in {ScheduleModeFrequency, ScheduleModeTimepoints, "", "weekly"},
        tps \in {<<>>, <<TimePoint(8, 0)>>, <<TimePoint(8, 0), TimePoint(8, 1)>>}}

Histories == UNION {[1..n -> DueRecords] : n \in 0..MaxHist}

PadSizes == {0, HistoryLimitToday}

(* dPad rows created after those of dRows and still pending *)
PaddedRows ==
    [i \in 1..dPad |-> DueRecord(SendTypeRepost, SendStatusPending, NoTime)] \o dRows

InitDue ==
    /\ EngineIdle
    /\ dGroup \in DueGroups
    /\ dRows \in Histories
    /\ dPad \in PadSizes
    /\ dNow \in DueTimes
    /\ \A i \in 1..Len(dRows) : dRows[i].sent_at <= dNow    \* nothing is sent in the future
    /\ dErr \in BOOLEAN
    /\ dDue = "none"
    /\ dNew = <<>>
    /\ dSwitches = 0
    /\ dRead = NoRead

(* the send_records table whose rows, newest first, are rows *)
TableOf(rows) == [i \in 1..Len(rows) |-> [rows[Len(rows) + 1 - i] EXCEPT !.id = i]]

(* createRepostTasks: the loop body for the drawn group, the due check and  *)
(* createRepostTask                                                         *)
DueCheck ==
    /\ dDue = "none"
    /\ LET due == shouldCreateRepostTask(dGroup, PaddedRows, dNow, dErr)
           table == TableOf(PaddedRows)
           after == createRepostTask(table, channels, 1, dNow)
       IN  /\ dDue' = IF due THEN "yes" ELSE "no"
           /\ dNew' = IF dGroup.active /\ due
                      THEN SubSeq(after, Len(table) + 1, Len(after)) ELSE <<>>
    /\ UNCHANGED <<dGroup, dRows, dPad, dNow, dErr, dSwitches, dRead>>
    /\ UNCHANGED engineVars

NextDue == DueCheck

SpecDue == InitDue /\ [][NextDue]_vars

----------------------------------------------------------------------------
(* The operator switching the scheduling mode of the drawn group before the *)
(* due check                                                                *)

DefaultFrequency == 60

(* Bot.handleScheduleModeAction: the row UpdateChannelGroup writes, all its *)
(* columns from the row GetChannelGroup read; a nil list of time points     *)
(* becomes the empty list, which the rows hold as <<>> alike                *)
handleScheduleModeAction(group, mode) ==
    CASE mode = "frequency" ->
            [group EXCEPT !.mode = ScheduleModeFrequency,
                          !.frequency = IF @ <= 0 THEN DefaultFrequency ELSE @]
      [] mode = "timepoints" -> [group EXCEPT !.mode = ScheduleModeTimepoints]
      [] OTHER -> group

(* the buttons of showScheduleSettings *)
ModeButtons == {"frequency", "timepoints"}

(* frequencies the Bot accepts: minutes greater than 0 *)
FrequencyChoices == {1, 2}

InitMode ==
    /\ EngineIdle
    /\ \E g \in DueGroups, f \in FrequencyChoices : dGroup = [g EXCEPT !.frequency = f]
    /\ dRows \in Histories
    /\ dPad = 0
    /\ dNow \in DueTimes
    /\ \A i \in 1..Len(dRows) : dRows[i].sent_at <= dNow
    /\ dErr = FALSE
    /\ dDue = "none"
    /\ dNew = <<>>
    /\ dSwitches = 0
    /\ dRead = NoRead

(* handleScheduleModeAction up to the return of GetChannelGroup; every      *)
(* update of the Bot runs in a goroutine of its own                         *)
SwitchRead(mode) ==
    /\ dDue = "none"
    /\ dRead = NoRead
    /\ dSwitches < MaxSwitch
    /\ dRead' = <<[mode |-> mode, group |-> dGroup]>>
    /\ UNCHANGED <<dGroup, dRows, dPad, dNow, dErr, dDue, dNew, dSwitches>>
    /\ UNCHANGED engineVars

(* the rest of handleScheduleModeAction: UpdateChannelGroup sets every      *)
(* column of the row from the row that was read                             *)
SwitchWrite ==
    /\ dDue = "none"
    /\ dRead # NoRead
    /\ dGroup' = handleScheduleModeAction(dRead[1].group, dRead[1].mode)
    /\ dSwitches' = dSwitches + 1
    /\ dRead' = NoRead
    /\ UNCHANGED <<dRows, dPad, dNow, dErr, dDue, dNew>>
    /\ UNCHANGED engineVars

(* handleEditGroupFreq: UpdateChannelGroupFrequency sets the one column *)
EditFrequency(f) ==
    /\ dDue = "none"
    /\ dGroup' = [dGroup EXCEPT !.frequency = f]
    /\ UNCHANGED <<dRows, dPad, dNow, dErr, dDue, dNew, dSwitches, dRead>>
    /\ UNCHANGED engineVars

NextMode ==
    \/ \E mode \in ModeButtons : SwitchRead(mode)
    \/ SwitchWrite
    \/ \E f \in FrequencyChoices : EditFrequency(f)
    \/ DueCheck

SpecMode == InitMode /\ [][NextMode]_vars

----------------------------------------------------------------------------
(* Properties of the due predicate (specification SpecDue) *)

(* the check has run and its history lookup succeeded *)
Checked == dDue # "none" /\ ~dErr

IsSentRepost(r) ==
    r.message_type = SendTypeRepost /\ r.status = SendStatusSent /\ r.sent_at # NoTime

(* the positions of the sent repost rows of the history, newest first *)
SentRepostRows == {i \in 1..Len(PaddedRows) : IsSentRepost(PaddedRows[i])}

MostRecentSent == CHOOSE i \in SentRepostRows : \A j \in SentRepostRows : i <= j

FrequencyWindow == dGroup.frequency * Minute

(* the group's most recent row is a sent repost *)
LastRowIsSentRepost == Len(PaddedRows) > 0 /\ IsSentRepost(PaddedRows[1])

(* C4, as claimed: in frequency mode with the last sent repost at T, the    *)
(* group is not due at any t with T < t < T+F and due at every t >= T+F,    *)
(* the instant T+F included.                                                *)
C4_DueAtOrAfterWindow ==
    (Checked /\ dGroup.mode = ScheduleModeFrequency /\ LastRowIsSentRepost) =>
        LET T == PaddedRows[1].sent_at IN
        /\ (T < dNow /\ dNow < T + FrequencyWindow) => dDue = "no"
        /\ dNow >= T + FrequencyWindow => dDue = "yes"

(* C4, amended: in frequency mode, when the group's most recent row is a    *)
(* sent repost with sent_at = T, the group is not due at any t with         *)
(* T < t <= T+F and due at every t > T+F: time.Now().After(T+F) is strict.  *)
C4_DueStrictlyAfterWindow ==
    (Checked /\ dGroup.mode = ScheduleModeFrequency /\ LastRowIsSentRepost) =>
        LET T == PaddedRows[1].sent_at IN
        /\ (T < dNow /\ dNow <= T + FrequencyWindow) => dDue = "no"
        /\ dNow > T + FrequencyWindow => dDue = "yes"

C4_Witness ==
    /\ Checked /\ dGroup.mode = ScheduleModeFrequency /\ LastRowIsSentRepost
    /\ dNow = PaddedRows[1].sent_at + FrequencyWindow
    /\ dDue = "no"

(* C5: in frequency mode the group is due iff it has no sent repost row or  *)
(* the sent_at of its most recent sent repost row plus F minutes has        *)
(* elapsed, whatever newer pending, retry, failed or push rows exist.  The  *)
(* instant T+F itself, the subject of C4, is left open here.                *)
C5_DueFromLastSentRepost ==
    (Checked /\ dGroup.mode = ScheduleModeFrequency) =>
        IF SentRepostRows = {} THEN dDue = "yes"
        ELSE LET T == PaddedRows[MostRecentSent].sent_at IN
             /\ dNow > T + FrequencyWindow => dDue = "yes"
             /\ dNow < T + FrequencyWindow => dDue = "no"

InMinuteOf(t, timepoint) ==
    HourOf(t) = timepoint.hour /\ MinuteOf(t) = timepoint.minute

Configured == {dGroup.timepoints[k] : k \in 1..Len(dGroup.timepoints)}

(* a sent repost row whose sent_at lies on day d inside the minute of tp *)
SentInMinute(d, timepoint) ==
    \E i \in SentRepostRows :
        /\ DateOf(PaddedRows[i].sent_at) = d
        /\ InMinuteOf(PaddedRows[i].sent_at, timepoint)

(* C6: in timepoints mode, once a sent repost row has its sent_at on day D  *)
(* inside the minute of a configured time point tp, the group is not due at *)
(* any later check on day D inside that minute; and it is due at tp on a    *)
(* day on which no repost has been sent yet.                                *)
C6_NoDoubleFire ==
    (Checked /\ dGroup.mode = ScheduleModeTimepoints) =>
        \A timepoint \in Configured :
            InMinuteOf(dNow, timepoint) =>
                /\ (\E i \in SentRepostRows :
                        /\ DateOf(PaddedRows[i].sent_at) = DateOf(dNow)
                        /\ InMinuteOf(PaddedRows[i].sent_at, timepoint)
                        /\ PaddedRows[i].sent_at <= dNow) => dDue = "no"
                /\ (\A i \in SentRepostRows :
                        DateOf(PaddedRows[i].sent_at) # DateOf(dNow)) => dDue = "yes"

(* C7: every configured time point fires on each day: at a check inside the *)
(* minute of a configured time point tp, with no repost sent yet today      *)
(* inside that minute, the group is due, whatever was sent today for the    *)
(* other configured time points.                                            *)
C7_EveryTimepointFires ==
    (Checked /\ dGroup.mode = ScheduleModeTimepoints) =>
        \A timepoint \in Configured :
            (InMinuteOf(dNow, timepoint) /\ ~SentInMinute(DateOf(dNow), timepoint))
                => dDue = "yes"

(* the current hour and minute are those of a configured time point *)
TimepointMatches ==
    \E k \in 1..Len(dGroup.timepoints) :
        /\ dGroup.timepoints[k].hour = HourOf(dNow)
        /\ dGroup.timepoints[k].minute = MinuteOf(dNow)

(* the rows of the drawn table that are in flight for channel c *)
InFlightBefore(c) ==
    {i \in 1..Len(PaddedRows) :
        PaddedRows[i].channel_id = c /\ PaddedRows[i].status \in InFlight}

CreatedFor(c) == {i \in 1..Len(dNew) : dNew[i].channel_id = c}

(* C28: when the history lookup of the due check fails, a frequency-mode    *)
(* group is due, a timepoints-mode group is due exactly when the current    *)
(* hour and minute match a configured time point, and the materializer      *)
(* still creates a record only for the channels without an in-flight one.   *)
C28_FailOpenDueCheck ==
    (dDue # "none" /\ dErr) =>
        /\ dGroup.mode # ScheduleModeTimepoints => dDue = "yes"
        /\ dGroup.mode = ScheduleModeTimepoints => (dDue = "yes" <=> TimepointMatches)
        /\ dDue = "yes" =>
              \A c \in ChannelIDs :
                  Cardinality(CreatedFor(c)) = IF InFlightBefore(c) = {} THEN 1 ELSE 0
        /\ dDue = "no" => dNew = <<>>

(* the lookup failed for a group that a working lookup would have found not *)
(* due, and the channel with an in-flight record got no new one             *)
C28_Witness ==
    /\ dDue = "yes" /\ dErr
    /\ ~shouldCreateRepostTask(dGroup, PaddedRows, dNow, FALSE)
    /\ InFlightBefore("A") # {} /\ CreatedFor("A") = {} /\ CreatedFor("B") # {}

----------------------------------------------------------------------------
(* Properties of the engine (specification Spec) *)

InFlightOf(g, c) == GetPendingSendRecordsByGroupAndChannel(records, g, c)

(* the goroutine w takes the step *)
Stepped(w) == CopiesIn(w, workers') < CopiesIn(w, workers)

(* the goroutine w takes its last step: processRecord returns *)
Returned(w) == Stepped(w) /\ BagCardinality(workers') < BagCardinality(workers)

(* C1: at every moment there is at most one pending or retry send record    *)
(* for each (group, channel) pair.                                          *)
C1_AtMostOneInFlight ==
    \A k \in DOMAIN channels : Cardinality(InFlightOf(k[1], k[2])) <= 1

(* C2: every failed delivery attempt of a record adds one to its persisted  *)
(* retry_count and leaves it retry while the count is below retry-attempts  *)
(* and failed once it reaches it, with the error stored; no delivery is     *)
(* attempted for a record that is failed.                                   *)
C2_RetryBudget ==
    [][\A w \in BagToSet(workers) :
          (w.pc = "send" /\ Stepped(w)) =>
              LET old == records[w.rec.id]
                  new == records'[w.rec.id]
              IN  /\ old.status # SendStatusFailed
                  /\ Returned(w) =>
                        /\ new.retry_count = old.retry_count + 1
                        /\ new.status = IF new.retry_count < cfg.RetryAttempts
                                        THEN SendStatusRetry ELSE SendStatusFailed
                        /\ new.error_message = ErrSend]_vars

(* C3: a record that goes to retry after a failure at time t has the        *)
(* persisted scheduled_at t + retry-interval, so the dispatch loop does not *)
(* select it before that time.                                              *)
C3_RetryDelay ==
    [][\A i \in 1..Len(records) :
          (records'[i].status = SendStatusRetry /\ records'[i] # records[i]) =>
              records'[i].scheduled_at = now + (cfg.RetryInterval \div SecondsPerUnit)]_vars

(* the goroutine w reconciles a repost for a channel with a previous message *)
Replaces(w) == w.rec.message_type = SendTypeRepost /\ w.last # NoMsg

(* C8: when a repost is reconciled for a channel whose last_message_id is a *)
(* message m, the delete of m is issued before the send; last_message_id    *)
(* changes only to the id of a send that returned success, after that send; *)
(* a failed send leaves last_message_id unchanged.                          *)
C8_DeleteThenSend ==
    [][/\ \A w \in BagToSet(workers') :
             /\ (w.pc = "delete" /\ w \notin BagToSet(workers)) =>
                    /\ w.last = channels[<<w.rec.group_id, w.rec.channel_id>>].last_message_id
                    /\ w.last # NoMsg
             /\ w.pc = "delete" => w.calls = <<>>
             /\ (Replaces(w) /\ w.pc \in {"send", "persist"}) =>
                    /\ Len(w.calls) >= 1
                    /\ w.calls[1] = Call("delete", w.rec.channel_id, w.last)
             /\ (Replaces(w) /\ w.pc = "persist") =>
                    /\ Len(w.calls) >= 2
                    /\ w.calls[2] = Call("send", w.rec.channel_id, w.msg)
       /\ \A k \in DOMAIN channels :
             channels'[k].last_message_id # channels[k].last_message_id =>
                \E w \in BagToSet(workers) :
                    /\ w.pc = "persist" /\ Returned(w)
                    /\ w.rec.channel_id = k[2]
                    /\ channels'[k].last_message_id = w.msg
                    /\ \E n \in 1..Len(w.calls) :
                          w.calls[n] = Call("send", w.rec.channel_id, w.msg)
       /\ \A w \in BagToSet(workers) :
             (w.pc = "send" /\ Returned(w)) => channels' = channels]_vars

C8_Witness ==
    \E w \in BagToSet(workers) : Replaces(w) /\ w.pc = "persist"

(* C9: a record whose group is inactive when its goroutine loads it goes    *)
(* straight to failed with the inactive-group error and the retry_count it  *)
(* was dispatched with; nothing is deleted, sent or pinned for it.          *)
C9_InactiveShortCircuit ==
    [][\A w \in BagToSet(workers) :
          (/\ w.pc = "load" /\ Stepped(w)
           /\ w.rec.message_type \in {SendTypeRepost, SendTypePush}
           /\ ~groups[w.rec.group_id].active
           /\ records'[w.rec.id].error_message # ErrStorage) =>
              /\ Returned(w)
              /\ w.calls = <<>>
              /\ records'[w.rec.id].status = SendStatusFailed
              /\ records'[w.rec.id].error_message = ErrInactive
              /\ records'[w.rec.id].retry_count = w.rec.retry_count
              /\ nextMsg' = nextMsg
              /\ channels' = channels]_vars

C9_Witness ==
    \E i \in 1..Len(records) :
        records[i].status = SendStatusFailed /\ records[i].error_message = ErrInactive

(* the positions of the n records of list with the smallest scheduled_at *)
Oldest(list, n) ==
    {i \in 1..Len(list) :
        Cardinality({j \in 1..Len(list) : list[j].scheduled_at < list[i].scheduled_at}) < n}

(* a tick that found more due records than slots, all slots free, and no two *)
(* due records with the same scheduled_at                                    *)
FairnessCase ==
    /\ tick.active /\ tick.allFree
    /\ Len(tick.list) > cfg.MaxWorkers
    /\ \A i, j \in 1..Len(tick.list) :
          i # j => tick.list[i].scheduled_at # tick.list[j].scheduled_at

(* C10, as claimed: with N due records, W < N slots, all free at the start  *)
(* of the tick, the records dispatched in that tick are exactly the W with  *)
(* the smallest scheduled_at, for every interleaving of completions.        *)
C10_ExactlyOldest ==
    (FairnessCase /\ tick.pos > Len(tick.list)) =>
        tick.started = {tick.list[i].id : i \in Oldest(tick.list, cfg.MaxWorkers)}

(* C10, amended: in such a tick each of the W records with the smallest     *)
(* scheduled_at is dispatched when the loop reaches it; a record after them *)
(* is dispatched too when a goroutine has returned in the meantime.         *)
C10_OldestDispatched ==
    FairnessCase =>
        \A i \in Oldest(tick.list, cfg.MaxWorkers) :
            i < tick.pos => tick.list[i].id \in tick.started

C10_Witness ==
    /\ FairnessCase /\ tick.pos > Len(tick.list)
    /\ Cardinality(tick.started) > cfg.MaxWorkers

(* the goroutines that have not returned *)
Running == BagCardinality(workers)

(* C11: the number of work items dispatched and not yet finished never      *)
(* exceeds max-workers, and every work item that finishes releases exactly  *)
(* the one slot it acquired, whatever its outcome.                          *)
C11_WorkerPoolBound ==
    [][/\ BagCardinality(workers') <= cfg.MaxWorkers
       /\ slots' = BagCardinality(workers')
       /\ \A w \in BagToSet(workers) : Returned(w) => slots' = slots - 1]_vars

C11_Witness ==
    /\ slots = cfg.MaxWorkers
    /\ dispatches > Running

Terminal == {SendStatusSent, SendStatusFailed}

(* C12: once the persisted status of a record is sent or failed, no later   *)
(* step changes the status of that record.                                  *)
C12_TerminalFinal ==
    [][\A i \in 1..Len(records) :
          records[i].status \in Terminal => records'[i].status = records[i].status]_vars

(* a goroutine returns from a failed attempt: its write is the one of       *)
(* handleSendError                                                          *)
FailedAttempt(i) ==
    \E w \in BagToSet(workers) :
        /\ w.rec.id = i /\ Returned(w)
        /\ records'[i].error_message \in {ErrSend, ErrStorage}

(* C13: the persisted retry_count of a record never decreases, and it       *)
(* changes only as the result of a failed attempt, by exactly one.          *)
C13_RetryCountMonotone ==
    [][\A i \in 1..Len(records) :
          /\ records'[i].retry_count >= records[i].retry_count
          /\ records'[i].retry_count # records[i].retry_count =>
                /\ records'[i].retry_count = records[i].retry_count + 1
                /\ FailedAttempt(i)]_vars

(* the step is one iteration of createRepostTasks for a group that is due   *)
(* whatever order the engine returns its rows in                            *)
MaterializesDue ==
    /\ mat # <<>> /\ mat' = Tail(mat)
    /\ Head(mat).active
    /\ \A rows \in GroupRowsNewestFirst(records, Head(mat).id) :
          shouldCreateRepostTask(Head(mat), rows, now, FALSE)

(* C15: after the materializer ran for a due group, every active channel of *)
(* the group has exactly one in-flight record; the rows that existed are    *)
(* unchanged and a channel that had an in-flight record gets no new one;    *)
(* every created record is a pending repost with retry_count 0 scheduled    *)
(* now; and running the materializer again at once creates nothing.         *)
C15_MaterializationResult ==
    [][MaterializesDue =>
          LET g == Head(mat).id
              cs == GetChannelsByGroupID(channels, g)
          IN  /\ \A n \in 1..Len(cs) :
                    Cardinality(GetPendingSendRecordsByGroupAndChannel(records', g, cs[n])) = 1
              /\ Len(records') >= Len(records)
              /\ \A i \in 1..Len(records) : records'[i] = records[i]
              /\ \A i \in (Len(records) + 1)..Len(records') :
                    /\ records'[i].status = SendStatusPending
                    /\ records'[i].message_type = SendTypeRepost
                    /\ records'[i].retry_count = 0
                    /\ records'[i].scheduled_at = now
                    /\ InFlightOf(g, records'[i].channel_id) = {}
              /\ createRepostTask(records', channels, g, now) = records']_vars

(* C20: a record is never in the hands of two goroutines at once.           *)
C20_NoDoubleDispatch ==
    \A w \in BagToSet(workers) :
        /\ CopiesIn(w, workers) = 1
        /\ \A v \in BagToSet(workers) : v.rec.id = w.rec.id => v = w

(* the goroutine w has made a successful send for its record *)
HasDelivered(w) == w.msg # NoMsg

(* C21: a send record causes at most one successful send: no goroutine has  *)
(* delivered for a record that is already persisted as sent, and no two     *)
(* goroutines have delivered for the same record.                           *)
C21_AtMostOneDelivery ==
    \A w \in BagToSet(workers) :
        HasDelivered(w) =>
            /\ records[w.rec.id].status # SendStatusSent
            /\ CopiesIn(w, workers) = 1
            /\ \A v \in BagToSet(workers) :
                  (v.rec.id = w.rec.id /\ HasDelivered(v)) => v = w

(* two rows are successful automatic reposts to the same channel *)
SentRepostsOfSameChannel(i, j) ==
    /\ i # j
    /\ records[i].group_id = records[j].group_id
    /\ records[i].channel_id = records[j].channel_id
    /\ records[i].message_type = SendTypeRepost /\ records[j].message_type = SendTypeRepost
    /\ records[i].status = SendStatusSent /\ records[j].status = SendStatusSent
    /\ records[i].sent_at # NoTime /\ records[j].sent_at # NoTime

(* C22: in a frequency-mode group two successful automatic reposts to the   *)
(* same channel are at least the group's frequency apart, whatever happens  *)
(* to the records of the group's other channels.                            *)
C22_FrequencySpacing ==
    \A i, j \in 1..Len(records) :
        (SentRepostsOfSameChannel(i, j)
            /\ groups[records[i].group_id].mode = ScheduleModeFrequency) =>
            abs(records[i].sent_at - records[j].sent_at)
                >= groups[records[i].group_id].frequency * Minute

(* the list is the due in-flight rows of the table, each once, in            *)
(* non-decreasing order of scheduled_at                                     *)
DueOldestFirst(list, recs, t) ==
    /\ \A p \in 1..Len(list) :
          /\ list[p].id \in 1..Len(recs) /\ list[p] = recs[list[p].id]
          /\ list[p].status \in InFlight
          /\ list[p].scheduled_at <= t
    /\ \A p, q \in 1..Len(list) :
          /\ p < q => list[p].scheduled_at <= list[q].scheduled_at
          /\ p # q => list[p].id # list[q].id
    /\ \A i \in 1..Len(recs) :
          (recs[i].status \in InFlight /\ recs[i].scheduled_at <= t) =>
              \E p \in 1..Len(list) : list[p].id = i

(* C24: a tick of the dispatch loop fetches exactly the pending and retry   *)
(* records with scheduled_at <= now, in non-decreasing order of             *)
(* scheduled_at, considers them one by one in that order, and every work    *)
(* item it hands out is the record at the position it has reached.          *)
C24_OldestFirstWithinTick ==
    [][/\ (~tick.active /\ tick'.active) => DueOldestFirst(tick'.list, records, now)
       /\ (tick.active /\ tick'.active /\ tick' # tick) =>
             /\ tick'.list = tick.list
             /\ tick'.pos = tick.pos + 1
       /\ dispatches' # dispatches =>
             /\ tick.active /\ tick.pos <= Len(tick.list)
             /\ workers' = workers (+) SetToBag({StartWorker(tick.list[tick.pos])})]_vars

(* a tick has handed out two records of different age, the older one first *)
C24_Witness ==
    /\ tick.active
    /\ \E p, q \in 1..Len(tick.list) :
          /\ p < q /\ q < tick.pos
          /\ tick.list[p].scheduled_at < tick.list[q].scheduled_at
          /\ {tick.list[p].id, tick.list[q].id} \subseteq tick.started

(* the goroutine w, after a failed delete or pin, persists a successful send *)
PersistsAfterFailedSideEffect(w) ==
    w.pc = "persist" /\ Stepped(w) /\ w.failed # {}

(* the outcome of a successful send of w is in the tables *)
SentOutcome(w) ==
    /\ records'[w.rec.id].status = SendStatusSent
    /\ records'[w.rec.id].message_id = w.msg
    /\ records'[w.rec.id].retry_count = w.rec.retry_count
    /\ \A k \in DOMAIN channels' :
          (k[2] = w.rec.channel_id /\ w.rec.message_type = SendTypeRepost) =>
              channels'[k].last_message_id = w.msg

Classified(w, err) ==
    /\ records'[w.rec.id].error_message = err
    /\ records'[w.rec.id].retry_count = w.rec.retry_count + 1
    /\ records'[w.rec.id].status =
          IF w.rec.retry_count + 1 < cfg.RetryAttempts
          THEN SendStatusRetry ELSE SendStatusFailed

(* C26: a goroutine that returns because a load of the group, the template  *)
(* or the channel list failed has made no delivery call and leaves its      *)
(* record as the retry classifier decides, like a goroutine whose send      *)
(* failed: retry_count + 1, retry while budget is left, failed only when    *)
(* the budget is used up.                                                   *)
C26_LoadErrorsRetryable ==
    [][\A w \in BagToSet(workers) :
          /\ (w.pc = "load" /\ Returned(w)
                /\ records'[w.rec.id].error_message = ErrStorage) =>
                /\ Classified(w, ErrStorage)
                /\ w.calls = <<>>
                /\ nextMsg' = nextMsg
          /\ (w.pc = "send" /\ Returned(w)) => Classified(w, ErrSend)]_vars

(* a load error has left a record in retry: no send has succeeded so far,   *)
(* so the storage error is not one of the outcome's persistence             *)
C26_Witness ==
    /\ nextMsg = 1
    /\ \E i \in 1..Len(records) :
          /\ records[i].error_message = ErrStorage
          /\ records[i].status = SendStatusRetry
          /\ records[i].retry_count = 1

(* a step of the materializer's loop over the groups it read *)
MaterializerStep == mat # <<>> /\ mat' = Tail(mat)

(* C29: an iteration of the materializer for a group it read as inactive    *)
(* creates no record, and a step that changes a group's active flag leaves  *)
(* every record as it was.                                                  *)
C29_InactiveNotMaterialized ==
    [][/\ (MaterializerStep /\ ~Head(mat).active) => records' = records
       /\ groups' # groups => records' = records]_vars

(* the materializer is about to visit a deactivated group whose history     *)
(* makes it due, and a record of the group is still pending                 *)
C29_Witness ==
    /\ mat # <<>> /\ ~Head(mat).active /\ ~groups[Head(mat).id].active
    /\ \E rows \in GroupRowsNewestFirst(records, Head(mat).id) :
          shouldCreateRepostTask(Head(mat), rows, now, FALSE)
    /\ createRepostTask(records, channels, Head(mat).id, now) # records
    /\ \E i \in 1..Len(records) :
          records[i].group_id = Head(mat).id /\ records[i].status = SendStatusPending

(* C30: every stored record with status failed or retry carries an error     *)
(* text, and every stored record with status sent carries none.             *)
C30_FailuresCarryErrorText ==
    \A i \in 1..Len(records) :
        /\ records[i].status \in {SendStatusFailed, SendStatusRetry}
               => records[i].error_message # ErrNone
        /\ records[i].status = SendStatusSent => records[i].error_message = ErrNone

(* no goroutine of the reconciler is between its delete and the end of its  *)
(* attempt for channel c                                                    *)
NoAttemptInProgress(c) ==
    \A w \in BagToSet(workers) : w.rec.channel_id = c => w.pc = "load"

(* C35: once the attempts for a channel have ended, the channel's last      *)
(* message id, when it is not empty, names a message that is still on the   *)
(* channel (the engine has not deleted it).                                 *)
C35_TrackedMessageExists ==
    \A k \in DOMAIN channels :
        (channels[k].last_message_id # NoMsg /\ NoAttemptInProgress(k[2]))
            => <<k[2], channels[k].last_message_id>> \in live

----------------------------------------------------------------------------
(* Properties of Start (specification SpecStart) *)

StartStep == NotStarted /\ loops' # {}

Unswept(recs) ==
    LET kept == SelectSeq(recs, LAMBDA r : r.status # SendStatusPending)
    IN  [i \in 1..Len(kept) |-> [kept[i] EXCEPT !.id = 0]]

(* the step leaves no pending row and every other row as it was *)
SweepsPending ==
    /\ \A i \in 1..Len(records') : records'[i].status # SendStatusPending
    /\ Unswept(records') = Unswept(records)

(* the step deletes no row *)
DeletesNothing ==
    /\ Len(records') >= Len(records)
    /\ \A i \in 1..Len(records) : records'[i].id = records[i].id

----------------------------------------------------------------------------
(* Properties of the operation lock (specification SpecLock) *)

OpsRunning == {o \in OpIDs : ops[o].pc = "run"}

Holders == {o \in OpsRunning : ops[o].kind \in LockingOps}

(* C32: no two manual send or delete operations on the group execute at the *)
(* same time.                                                               *)
C32_ManualOpsSerialized == Cardinality(OpsRunning) <= 1

(* C33: at most one of the operations that take the operation lock holds    *)
(* the lock of the group, and the mutex a running operation holds is the    *)
(* one in the lock map (the delayed cleanup has not removed it).            *)
C33_OneHolderAcrossCleanup ==
    /\ Cardinality(Holders) <= 1
    /\ \A o \in Holders : lockMap = ops[o].lock

----------------------------------------------------------------------------
(* Properties of a manual repost beside the reconciler (specification       *)
(* SpecOps)                                                                 *)

(* goroutines of the reconciler that read the same last message id of the   *)
(* channel as the manual repost in progress and have sent their message     *)
RacingWorkers ==
    {w \in BagToSet(workers) :
        /\ manual.op = "repost"
        /\ w.pc = "persist"
        /\ w.rec.message_type = SendTypeRepost
        /\ w.rec.group_id = manual.group
        /\ w.rec.channel_id = Head(manual.todo).channel
        /\ w.last = Head(manual.todo).last
        /\ <<manual.group, w.rec.channel_id>> \in DOMAIN channels}

(* the manual repost sends to the channel at the head of its list *)
ManualSends == manual # NoManual /\ manual' # manual /\ nextMsg' = nextMsg + 1

(* C34: a manual repost and a goroutine of the reconciler that have read    *)
(* the same last message id of a channel both send to it; after the manual  *)
(* send both messages are on the channel and the last message id names the  *)
(* manual one only.                                                         *)
C34_ManualAndAutomaticBothSend ==
    [][\A w \in RacingWorkers :
          ManualSends =>
             LET c == w.rec.channel_id IN
             /\ <<c, w.msg>> \in live' /\ <<c, nextMsg>> \in live'
             /\ w.msg # nextMsg
             /\ channels'[<<w.rec.group_id, c>>].last_message_id = nextMsg]_vars

(* the reconciler has sent its message and the manual repost, which read    *)
(* the same last message id, is about to send to the same channel           *)
C34_Witness ==
    \E w \in RacingWorkers :
        /\ <<w.rec.channel_id, w.msg>> \in live
        /\ channels[<<manual.group, w.rec.channel_id>>].last_message_id = w.last

----------------------------------------------------------------------------
(* Properties of the reconciler with a channel shared by two groups         *)
(* (specification SpecShared)                                               *)

(* C36: a step that changes the last message id of the channel row of       *)
(* group g for channel c is the step of a goroutine reconciling a record of *)
(* (g, c); the row another group has for c is left as it was.               *)
C36_PerGroupChannelState ==
    [][\A k \in DOMAIN channels :
          (k \in DOMAIN channels' /\
           channels'[k].last_message_id # channels[k].last_message_id)
              => \E w \in BagToSet(workers) :
                    /\ w.pc = "persist"
                    /\ w.rec.group_id = k[1]
                    /\ w.rec.channel_id = k[2]]_vars

----------------------------------------------------------------------------
(* Properties of the shutdown (specification SpecStop) *)

(* C18: Stop does not return while a periodic goroutine or a dispatched     *)
(* goroutine is still running; after the cancellation the goroutines in     *)
(* progress take the same steps as before and persist their outcome.        *)
C18_ShutdownDrain ==
    [][/\ stop' = "returned" => (loops' = {} /\ workers' = EmptyBag)
       /\ wg' = Cardinality(loops') + BagCardinality(workers')
       /\ \A w \in BagToSet(workers) :
             (ctx = "done" /\ Returned(w)) =>
                 /\ records'[w.rec.id].status \in {SendStatusSent, SendStatusFailed, SendStatusRetry}
                 /\ w.pc = "persist" =>
                       \/ records'[w.rec.id].message_id = w.msg
                       \/ records'[w.rec.id].error_message = ErrStorage]_vars

C18_Witness ==
    /\ stop = "returned"
    /\ dispatches > 0
    /\ \E i \in 1..Len(records) : records[i].status = SendStatusSent

(* C19: when every delivery call returns, a call to Stop returns, wherever  *)
(* the two loops and the goroutines are when the cancellation is signalled. *)
C19_ShutdownTerminates == (stop = "waiting") ~> (stop = "returned")

C19_Witness ==
    /\ stop = "waiting"
    /\ tick.active /\ tick.pos <= Len(tick.list)
    /\ mat # <<>>
    /\ Running > 0

(* C37: once s.cancel() has been called no goroutine is started for a       *)
(* record, whether a slot of the worker pool is free or not.                *)
C37_NoDispatchAfterCancel ==
    [][ctx = "done" => /\ dispatches' = dispatches
                       /\ \A w \in BagToSet(workers') :
                             w.pc = "load" => w \in BagToSet(workers)]_vars

----------------------------------------------------------------------------
(* Properties of the working off of pending records (specification SpecLive) *)

Resolves(i) ==
    (i <= Len(records) /\ records[i].status \in InFlight)
        ~> (i <= Len(records) /\ records[i].status \in Terminal)

(* C23: with a storage that does not fail, a dispatch loop and goroutines   *)
(* that keep running and delivery calls that return, every pending or retry *)
(* record reaches sent or failed, also when it was skipped on a tick for    *)
(* want of a free slot.                                                     *)
C23_EventualResolution == \A i \in 1..MaxRecords : Resolves(i)

(* a record of the fetched list was passed over for want of a slot and is   *)
(* still in flight                                                          *)
C23_Witness ==
    /\ tick.active
    /\ \E p \in 1..Len(tick.list) :
          /\ p < tick.pos
          /\ tick.list[p].id \notin tick.started
          /\ records[tick.list[p].id].status \in InFlight

----------------------------------------------------------------------------
(* Properties of the reconciliation of push records (specification SpecPush) *)

IsPush(w) == w.rec.message_type = SendTypePush

(* C27: the reconciliation of a push record makes no delete call and        *)
(* changes no channel's last_message_id; for the rest it ends like a        *)
(* repost: failed without a delivery call when the group is inactive, the   *)
(* retry classifier after a failed send, and sent with sent_at and the      *)
(* message id after a successful one.                                       *)
C27_PushIsAdditive ==
    [][\A w \in BagToSet(workers) :
          (IsPush(w) /\ Stepped(w)) =>
              /\ channels' = channels
              /\ w.pc # "delete"
              /\ \A n \in 1..Len(w.calls) : w.calls[n].op # "delete"
              /\ (w.pc = "load" /\ ~groups[w.rec.group_id].active
                    /\ records'[w.rec.id].error_message # ErrStorage) =>
                    /\ Returned(w) /\ w.calls = <<>> /\ nextMsg' = nextMsg
                    /\ records'[w.rec.id].status = SendStatusFailed
                    /\ records'[w.rec.id].error_message = ErrInactive
                    /\ records'[w.rec.id].retry_count = w.rec.retry_count
              /\ (w.pc = "send" /\ Returned(w)) => Classified(w, ErrSend)
              /\ (w.pc = "persist" /\ records'[w.rec.id].error_message # ErrStorage) =>
                    /\ records'[w.rec.id].status = SendStatusSent
                    /\ records'[w.rec.id].sent_at = now
                    /\ records'[w.rec.id].message_id = w.msg /\ w.msg # NoMsg
                    /\ records'[w.rec.id].error_message = ErrNone]_vars

(* a push record was sent and the channel's last_message_id is still empty *)
C27_Witness ==
    \E i \in 1..Len(records) :
        /\ records[i].message_type = SendTypePush
        /\ records[i].status = SendStatusSent
        /\ records[i].message_id # NoMsg
        /\ \A k \in DOMAIN channels :
              k[2] = records[i].channel_id => channels[k].last_message_id = NoMsg

----------------------------------------------------------------------------
(* Properties of the engine beside the operator's manual operations and the *)
(* message service (specification SpecOps)                                  *)

(* C14: every persisted send record with status sent has sent_at set and a  *)
(* non-empty message id, whether the reconciler's update or the message     *)
(* service's recording wrote it.                                            *)
C14_SentHasTimeAndId ==
    \A i \in 1..Len(records) :
        records[i].status = SendStatusSent =>
            records[i].sent_at # NoTime /\ records[i].message_id # NoMsg

(* the goroutine w finds no channel row for its repost record *)
MissingChannelCase(w) ==
    /\ w.pc = "load" /\ Stepped(w)
    /\ w.rec.message_type = SendTypeRepost
    /\ groups[w.rec.group_id].active
    /\ <<w.rec.group_id, w.rec.channel_id>> \notin DOMAIN channels
    /\ records'[w.rec.id].error_message # ErrStorage

MarkedFailedAtOnce ==
    \A w \in BagToSet(workers) :
        MissingChannelCase(w) =>
            /\ Returned(w)
            /\ w.calls = <<>>
            /\ records'[w.rec.id].status = SendStatusFailed
            /\ records'[w.rec.id].error_message = ErrNotFound
            /\ records'[w.rec.id].retry_count = w.rec.retry_count
            /\ nextMsg' = nextMsg
            /\ channels' = channels

FailedForMissingChannel(i) ==
    records[i].status = SendStatusFailed /\ records[i].error_message = ErrNotFound

NotRetriedAfterwards ==
    \A i \in 1..Len(records) :
        FailedForMissingChannel(i) =>
            /\ records'[i].status = SendStatusFailed
            /\ records'[i].retry_count = records[i].retry_count

(* C16: a dispatched repost record whose channel is not among the channels  *)
(* of its group is marked failed at once, without a call to the delivery    *)
(* gateway and without a change of retry_count, and is never retried.       *)
C16_MissingChannelNotRetried ==
    [][MarkedFailedAtOnce /\ NotRetriedAfterwards]_vars

(* the last_message_id of the channel row k changes in this step *)
LastChanged(k) ==
    /\ k \in DOMAIN channels /\ k \in DOMAIN channels'
    /\ channels'[k].last_message_id # channels[k].last_message_id

(* the reconciler's write after a successful send of a repost record *)
ReconcilerWrites(k) ==
    \E w \in BagToSet(workers) :
        /\ w.pc = "persist" /\ Stepped(w)
        /\ w.rec.message_type = SendTypeRepost
        /\ w.rec.channel_id = k[2]
        /\ channels'[k].last_message_id = w.msg

(* the write of a manual operation or of the message service: the id of the *)
(* message it has just sent, or the empty id after a manual delete          *)
ManualWrites(k) ==
    /\ manual # NoManual /\ manual' # manual
    /\ Head(manual.todo).channel = k[2]
    /\ \/ /\ manual.op \in {"repost", "push", "service"}
          /\ channels'[k].last_message_id = nextMsg
          /\ nextMsg' = nextMsg + 1
       \/ /\ manual.op = "delete"
          /\ Head(manual.todo).last # NoMsg
          /\ channels'[k].last_message_id = NoMsg

----------------------------------------------------------------------------
(* Properties of a mode switch before the due check (specification SpecMode) *)

TimepointChoices == {<<>>, <<TimePoint(8, 0)>>, <<TimePoint(8, 0), TimePoint(8, 1)>>}

(* the step of handleScheduleModeAction that writes the row *)
SwitchStep == dSwitches' = dSwitches + 1

SwitchKeepsParameters ==
    SwitchStep =>
        /\ dGroup'.timepoints = dGroup.timepoints
        /\ dGroup.frequency > 0 => dGroup'.frequency = dGroup.frequency

(* the result of the check is the result for every value of the parameter   *)
(* of the mode the group is not in                                          *)
DueIgnoresInactive ==
    dDue # "none" =>
        /\ dGroup.mode = ScheduleModeFrequency =>
              \A tps \in TimepointChoices :
                 (dDue = "yes") = shouldCreateRepostTask(
                     [dGroup EXCEPT !.timepoints = tps], PaddedRows, dNow, dErr)
        /\ dGroup.mode = ScheduleModeTimepoints =>
              \A f \in FrequencyChoices \cup {DefaultFrequency} :
                 (dDue = "yes") = shouldCreateRepostTask(
                     [dGroup EXCEPT !.frequency = f], PaddedRows, dNow, dErr)

(* C38: a switch between frequency and timepoints mode leaves the group's   *)
(* time points unchanged and a positive frequency unchanged, and the due    *)
(* decision in one mode is the same for every value of the other mode's     *)
(* parameters.                                                              *)
C38_ModeSwitchKeepsParameters ==
    [][SwitchKeepsParameters /\ DueIgnoresInactive /\ DueIgnoresInactive']_vars

----------------------------------------------------------------------------
(* Properties of the due predicate for a group whose mode is not a known    *)
(* value (specification SpecDue)                                            *)

UnknownMode == dGroup.mode \notin {ScheduleModeFrequency, ScheduleModeTimepoints}

(* C39: for a group whose scheduling mode is unset or not one of the two    *)
(* known values, the due check gives, for the drawn history and time, the   *)
(* result the frequency check gives for the same group in frequency mode.   *)
C39_UnknownModeIsFrequency ==
    (dDue # "none" /\ UnknownMode) =>
        (dDue = "yes") = shouldCreateFrequencyTask(
            [dGroup EXCEPT !.mode = ScheduleModeFrequency], PaddedRows, dNow, dErr)

(* an unset mode, a time point that matches the time of the check, and a    *)
(* sent repost inside the frequency window: not due                         *)
C39_Witness ==
    /\ dGroup.mode = ""
    /\ Len(dGroup.timepoints) > 0
    /\ dGroup.timepoints[1].hour = HourOf(dNow)
    /\ dGroup.timepoints[1].minute = MinuteOf(dNow)
    /\ ~dErr
    /\ dDue = "no"

====
